---------------------------- MODULE Spec2Model ----------------------------
(***************************************************************************)
(* Signal cleaning of the GNSS snow pipeline (src/functions.py).           *)
(*                                                                         *)
(* A pandas Series is a sequence of samples [t |-> timestamp, v |-> value] *)
(* in index order.  A value is a record: [nan |-> TRUE, x |-> 0] is the    *)
(* missing value (NaN), [nan |-> FALSE, x |-> n] is the number n (mm).     *)
(* NaN propagates through arithmetic and every comparison with NaN is      *)
(* false, as in numpy.                                                     *)
(*                                                                         *)
(* Timestamps are integers (days).  Index labels produced by               *)
(* jump.index.format() are rendered at full resolution, so a label denotes *)
(* exactly one instant of the series (the samples are never all at         *)
(* 00:00:00, where format() would render dates only).                      *)
(***************************************************************************)
EXTENDS Integers, Sequences, FiniteSets, TLC

VARIABLES
    fn,         \* the function being run
    pc,         \* position in that function
    u0,         \* the series as it entered the jump-correction step
    u,          \* u (filter_rtklib_solutions) / gnssir_rh (filter_gnssir)
    jump,       \* jump: the samples whose difference is beyond the threshold
    jump_val,   \* jump_val, computed once before the loop
    run,        \* 1: first call, 2: the step re-applied to its own output
    out1,       \* the series returned by the first call
    threshold,  \* threshold: the sigma multiplier of the outlier step
    u_clean,    \* u_clean / gnssir_rh_clean / f_clean
    gnssir_rh_clean,        \* the 15-minute medians (2 x value)
    gnssir_rh_clean_daily,  \* the daily medians of those (4 x value)
    gnssir_acc,             \* the accumulation series (4 x value)
    swe,                    \* swe: the SWE series given to the estimator
    sh,                     \* sh: the accumulation series given to it
    cal_date,               \* cal_date: the calibration day
    cal_val,                \* cal_val: the reference density
    density,                \* density: the raw density
    cal,                    \* cal: the calibration offset
    density_fil,            \* density_fil: smoothed and shifted
    density_cleaned,        \* density_cleaned: the returned series
    df_enu,                 \* df_enu: the stored rtklib solutions
    df_rh,                  \* df_rh: the stored reflector heights
    df_old,                 \* the stored series before the last run
    latest,                 \* timestamp -> values of the last batch with it
    runs,                   \* the number of ingestion runs
    ambiguity,              \* ambiguity: the requested ambiguity state
    fil_df,                 \* fil_df: the admitted solutions
    manual,                 \* manual.SWE_aboveAnt: the manual observations
    leica,                  \* leica.dswe: the high-end estimates
    emlid,                  \* emlid.dswe: the low-cost estimates
    diffs_daily,            \* diffs_daily: the joined differences
    result,                 \* what the statistic computed
    freq,                   \* freq: the frequency selector of filter_gnssir
    executed,               \* the later steps of filter_rtklib_solutions run
    swe_gnss,               \* swe_gnss (2 x value)
    swe_gnss_daily,         \* swe_gnss_daily (4 x value)
    written,                \* the files written
    ipol_density,           \* ipol_density: None or the density series
    sh_back,                \* the heights converted to SWE and back
    m_smooth,               \* m: the smoothed series of preprocess.py
    tree,                   \* the temp directory: its files (name, content)
    todo,                   \* the files glob.iglob has still to yield
    outliers                \* outliers: the timestamps the gradient flags

\* the variables of the outlier step
outlierVars == <<threshold, u_clean>>

\* the variables of the accumulation conversion of filter_gnssir
accVars == <<gnssir_rh_clean, gnssir_rh_clean_daily, gnssir_acc>>

\* the variables of the stages after jump correction and outlier rejection
\* the variables of convert_swesh2density
densityVars == <<swe, sh, cal_date, cal_val, density, cal, density_fil,
                 density_cleaned>>

\* the variables of get_rtklib_solutions and read_gnssir
ingestVars == <<df_enu, df_rh, df_old, latest, runs>>

\* the variables of the components other than the filters, the accumulation
\* and the density
\* the variables of the admission of filter_rtklib_solutions
admitVars == <<ambiguity, fil_df>>

\* the variables of the comparison with reference data
compareVars == <<manual, leica, emlid, diffs_daily, result>>

\* the variables of the selection of filter_gnssir and of the steps
\* modelled after it
\* the variables of the later steps of filter_rtklib_solutions
tailVars == <<executed, swe_gnss, swe_gnss_daily, written>>

\* the variables of the unit conversions
convertVars == <<ipol_density, sh_back>>

\* the variables of the components modelled after the rtklib filter
\* the variables of preprocess.py, of the renaming and of the gradient loop
extraVars == <<m_smooth, tree, todo, outliers>>

moreVars == <<convertVars, extraVars>>

lastVars == <<freq, tailVars, moreVars>>

restVars == <<ingestVars, admitVars, compareVars, lastVars>>

laterVars == <<accVars, densityVars, restVars>>

vars == <<fn, pc, u0, u, jump, jump_val, run, out1, outlierVars, laterVars>>

---------------------------------------------------------------------------
(* Bounds of the model *)

MaxLen == 4
MaxOutlierLen == 3
MaxAccLen == 3
MaxDensityLen == 3
MaxCalDay == 3
MaxTimestamp == 2
MaxRuns == 3
MaxFiles == 2
MaxDoy == 2
MaxAdmitLen == 4
MaxCompareLen == 3
MaxRhLen == 4
MaxConvertLen == 3
TicksPerBin == 2
BinsPerDay == 2

(* Program constants *)

RtklibJump == 1000
GnssirJump == 2500
DefaultThreshold == 2
ThreeDays == 3
SevenDays == 7
MinDensity == 50
MaxDensity == 830
DefaultDoy == 0
SecondsPerDay == 2
TicksPerSecond == 2

---------------------------------------------------------------------------
(* Values: numbers and NaN *)

NaN == [nan |-> TRUE, x |-> 0]

Num(n) == [nan |-> FALSE, x |-> n]

\* a - b on floats
Sub(a, b) == IF a.nan \/ b.nan THEN NaN ELSE Num(a.x - b.x)

\* a < b on floats: False when either side is NaN
Lt(a, b) == ~a.nan /\ ~b.nan /\ a.x < b.x

\* a > b on floats: False when either side is NaN
Gt(a, b) == ~a.nan /\ ~b.nan /\ a.x > b.x

---------------------------------------------------------------------------
(* Series operations *)

\* s[mask]: the samples of s whose mask is True, in order
Filter(s, mask) ==
    LET F[i \in 0..Len(s)] ==
            IF i = 0 THEN <<>>
            ELSE IF mask[i] THEN Append(F[i - 1], s[i]) ELSE F[i - 1]
    IN  F[Len(s)]

\* s.diff(): difference to the previous sample; NaN for the first one
diff(s) ==
    [i \in 1..Len(s) |-> IF i = 1 THEN NaN ELSE Sub(s[i].v, s[i - 1].v)]

\* s[label]: the value at an index label
Loc(s, label) == s[CHOOSE i \in 1..Len(s) : s[i].t = label].v

\* s[:label]: label slicing includes the end label
SliceTo(s, label) == Filter(s, [i \in 1..Len(s) |-> s[i].t <= label])

\* s[s.index >= label]
FromLabel(s, label) == Filter(s, [i \in 1..Len(s) |-> s[i].t >= label])

\* s[~(s.index >= label)]
BeforeLabel(s, label) == Filter(s, [i \in 1..Len(s) |-> ~(s[i].t >= label)])

\* s - c for a scalar c
SubScalar(s, c) == [i \in 1..Len(s) |-> [t |-> s[i].t, v |-> Sub(s[i].v, c)]]

---------------------------------------------------------------------------
(* Jump correction: filter_rtklib_solutions, lines 709-724 *)

\* jump = u[(u.diff() < -1000)]
rtklib_jump(s) ==
    Filter(s, [i \in 1..Len(s) |-> Lt(diff(s)[i], Num(0 - RtklibJump))])

\* jump = gnssir_rh[(gnssir_rh.diff() > 2500)]
gnssir_jump(s) ==
    Filter(s, [i \in 1..Len(s) |-> Gt(diff(s)[i], Num(GnssirJump))])

detect(f, s) ==
    IF f = "filter_rtklib_solutions" THEN rtklib_jump(s) ELSE gnssir_jump(s)

\* jump_ind = jump.index.format()[0]
jump_ind(j) == j[1].t

\* u[jump_ind] - u[:jump_ind][-2]
jump_value(s, label) ==
    LET head == SliceTo(s, label)
    IN  Sub(Loc(s, label), head[Len(head) - 1].v)

\* adj taken with > instead of >=: the sample at the break is left out
adj_exclusive(s, j, jv) ==
    SubScalar(Filter(s, [i \in 1..Len(s) |-> s[i].t > jump_ind(j)]), jv)

\* adj = u[(u.index >= jump.index.format()[0])] - jump_val
adj(s, j, jv) == SubScalar(FromLabel(s, jump_ind(j)), jv)

\* the concatenation takes the unadjusted samples instead of adj
corrected_unadjusted(s, j, jv) ==
    BeforeLabel(s, jump_ind(j)) \o FromLabel(s, jump_ind(j))

\* u = pd.concat([u[~(u.index >= jump.index.format()[0])], adj])
corrected(s, j, jv) == BeforeLabel(s, jump_ind(j)) \o adj(s, j, jv)

\* Lines 711-715 / 2331-2335: detect, then read the first jump's label and
\* value.  jump.index.format()[0] raises IndexError when jump is empty.
DetectJump ==
    /\ pc = "detect"
    /\ LET j == detect(fn, u)
       IN  IF j = <<>>
           THEN /\ pc' = "raised"
                /\ jump' = j
                /\ UNCHANGED jump_val
           ELSE /\ pc' = "loop"
                /\ jump' = j
                /\ jump_val' = jump_value(u, jump_ind(j))
    /\ UNCHANGED <<fn, u0, u, run, out1, outlierVars, laterVars>>

\* the loop drops the jump it has handled instead of detecting again
CorrectJump_pop ==
    /\ pc = "loop"
    /\ jump # <<>>
    /\ u' = corrected(u, jump, jump_val)
    /\ jump' = Tail(jump)
    /\ UNCHANGED <<fn, pc, u0, jump_val, run, out1, outlierVars, laterVars>>

\* Lines 717-722 / 2338-2344: one iteration of while jump.empty is False
CorrectJump ==
    /\ pc = "loop"
    /\ jump # <<>>
    /\ u' = corrected(u, jump, jump_val)
    /\ jump' = detect(fn, u')
    /\ UNCHANGED <<fn, pc, u0, jump_val, run, out1, outlierVars, laterVars>>

\* Line 724 / 2346: the loop ends, print('no jump detected!')
NoJump ==
    /\ pc = "loop"
    /\ jump = <<>>
    /\ pc' = "done"
    /\ out1' = IF run = 1 THEN u ELSE out1
    /\ UNCHANGED <<fn, u0, u, jump, jump_val, run, outlierVars, laterVars>>

\* The step applied again to the series it returned
Rerun ==
    /\ pc = "done"
    /\ run = 1
    /\ run' = 2
    /\ pc' = "detect"
    /\ UNCHANGED <<fn, u0, u, jump, jump_val, out1, outlierVars, laterVars>>

---------------------------------------------------------------------------
(* Inputs *)

Functions == {"filter_rtklib_solutions", "filter_gnssir"}

Values == {NaN} \cup {Num(n) : n \in {0, 5, 0 - 1500, 0 - 3000, 3000, 6000}}

\* a series of n samples at successive timestamps
Successive(vals) == [i \in 1..Len(vals) |-> [t |-> i, v |-> vals[i]]]

ValueSeqs == UNION {[1..n -> Values] : n \in 0..MaxLen}

\* Scenario A of the specification
ScenarioA ==
    Successive(<<Num(0), Num(5), Num(10), Num(0 - 2990), Num(0 - 2985),
                 Num(0 - 2980)>>)

Inputs == {Successive(vs) : vs \in ValueSeqs} \cup {ScenarioA}

\* the functions with an outlier step, the sigma multipliers tried, the
\* values and the gaps (days) between successive observations
OutlierFunctions ==
    {"filter_rtklib_solutions", "filter_gnssir", "filter_laser_observations"}

Thresholds == {1, 2, 3}

OutlierValues == {NaN} \cup {Num(n) : n \in {0, 1, 5}}

Gaps == {1, ThreeDays, SevenDays}

\* the accumulation conversion has not run
AccIdle ==
    /\ gnssir_rh_clean = <<>>
    /\ gnssir_rh_clean_daily = <<>>
    /\ gnssir_acc = <<>>

\* the density estimator has not run
DensityIdle ==
    /\ swe = <<>>
    /\ sh = <<>>
    /\ cal_date = 0
    /\ cal_val = 0
    /\ density = <<>>
    /\ cal = [k |-> "nan", n |-> 0, d |-> 1]
    /\ density_fil = <<>>
    /\ density_cleaned = <<>>

\* nothing has been ingested
IngestIdle ==
    /\ df_enu = <<>>
    /\ df_rh = <<>>
    /\ df_old = <<>>
    /\ latest = <<>>
    /\ runs = 0

\* nothing has been admitted
AdmitIdle ==
    /\ ambiguity = [scalar |-> TRUE, v |-> <<1>>]
    /\ fil_df = <<>>

\* no statistic has been computed
NoResult == [kind |-> "none", num |-> 0, den |-> 0, n |-> 0]

\* nothing has been compared
CompareIdle ==
    /\ manual = <<>>
    /\ leica = <<>>
    /\ emlid = <<>>
    /\ diffs_daily = <<>>
    /\ result = NoResult

\* preprocess.py, the renaming and the gradient loop have not run
ExtraIdle ==
    /\ m_smooth = <<>>
    /\ tree = {}
    /\ todo = {}
    /\ outliers = {}

\* no selection has been asked for
LastIdle ==
    /\ freq = [kind |-> "all", code |-> 0]
    /\ executed = {}
    /\ swe_gnss = <<>>
    /\ swe_gnss_daily = <<>>
    /\ written = {}
    /\ ipol_density = [given |-> FALSE, s |-> <<>>]
    /\ sh_back = <<>>
    /\ ExtraIdle

RestIdle == IngestIdle /\ AdmitIdle /\ CompareIdle /\ LastIdle

\* the later stages have not run
LaterIdle == AccIdle /\ DensityIdle /\ RestIdle

\* the jump correction is not part of the run
JumpIdle ==
    /\ u0 = <<>>
    /\ u = <<>>
    /\ jump = <<>>
    /\ jump_val = NaN
    /\ run = 1
    /\ out1 = <<>>

Init ==
    /\ fn \in Functions
    /\ u0 \in Inputs
    /\ u = u0
    /\ pc = "detect"
    /\ jump = <<>>
    /\ jump_val = NaN
    /\ run = 1
    /\ out1 = <<>>
    /\ threshold = DefaultThreshold
    /\ u_clean = <<>>
    /\ LaterIdle

Next == DetectJump \/ CorrectJump \/ NoJump \/ Rerun

Spec == Init /\ [][Next]_vars

\* A sequential program always takes its next step
LiveSpec == Spec /\ WF_vars(Next)

---------------------------------------------------------------------------
(* Outlier rejection: filter_rtklib_solutions lines 726-730, filter_gnssir *)
(* lines 2348-2352, filter_laser_observations lines 1005-1009.             *)
(*                                                                         *)
(* The limits median +- threshold * std are real numbers; the model keeps  *)
(* them as the window's statistics and compares exactly: with n valid      *)
(* values x in the window, std^2 = (n*sum(x^2) - sum(x)^2) / (n*(n-1)),    *)
(* and 2*median is an integer.                                             *)

\* rolling('3D') with closed='both': the sample exactly one window length
\* back is let in
rolling_closed_both(s, i, w) == {j \in 1..i : s[j].t >= s[i].t - w}

\* rolling over the whole series instead of the trailing window
rolling_whole_series(s, i, w) == 1..Len(s)

\* rolling('3D') / rolling('7D'): the trailing window of sample i is
\* (t - window, t], the positions up to i that are less than a window back
rolling(s, i, w) == {j \in 1..i : s[j].t > s[i].t - w}

\* the valid (non-NaN) values of a window, in index order
window_values(s, idx) ==
    LET F[j \in 0..Len(s)] ==
            IF j = 0 THEN <<>>
            ELSE IF j \in idx /\ ~s[j].v.nan THEN Append(F[j - 1], s[j].v.x)
                 ELSE F[j - 1]
    IN  F[Len(s)]

\* a sequence of numbers sorted in ascending order
sorted(xs) ==
    LET insert(x, ys) ==
            LET k == Cardinality({m \in 1..Len(ys) : ys[m] <= x})
            IN  SubSeq(ys, 1, k) \o <<x>> \o SubSeq(ys, k + 1, Len(ys))
        F[j \in 0..Len(xs)] ==
            IF j = 0 THEN <<>> ELSE insert(xs[j], F[j - 1])
    IN  F[Len(xs)]

\* twice the median of a non-empty sequence of numbers
median2(xs) ==
    LET ys == sorted(xs)
        n  == Len(ys)
    IN  IF n % 2 = 1 THEN 2 * ys[(n + 1) \div 2]
        ELSE ys[n \div 2] + ys[n \div 2 + 1]

sum(xs) ==
    LET F[j \in 0..Len(xs)] == IF j = 0 THEN 0 ELSE F[j - 1] + xs[j]
    IN  F[Len(xs)]

sumsq(xs) ==
    LET F[j \in 0..Len(xs)] == IF j = 0 THEN 0 ELSE F[j - 1] + xs[j] * xs[j]
    IN  F[Len(xs)]

\* n*(n-1) times the variance (ddof=1) of xs
scaled_var(xs) == Len(xs) * sumsq(xs) - sum(xs) * sum(xs)

\* (u >= lower_limit) & (u <= upper_limit) at sample i: the limits included
inside_limits_closed(s, i, w, k) ==
    LET xs == window_values(s, rolling(s, i, w))
        n  == Len(xs)
        d2 == 2 * s[i].v.x - median2(xs)
    IN  /\ ~s[i].v.nan
        /\ n >= 2
        /\ d2 * d2 * n * (n - 1) <= 4 * k * k * scaled_var(xs)

\* (u > lower_limit) & (u < upper_limit) at sample i.  std() is NaN with
\* fewer than 2 valid values in the window, and comparisons with NaN are
\* False.  With d = u - median: d < k*std and -d < k*std.
inside_limits(s, i, w, k) ==
    LET xs == window_values(s, rolling(s, i, w))
        n  == Len(xs)
        d2 == 2 * s[i].v.x - median2(xs)
    IN  /\ ~s[i].v.nan
        /\ n >= 2
        /\ d2 * d2 * n * (n - 1) < 4 * k * k * scaled_var(xs)

\* the rolling window of each function
window_of(f) == IF f = "filter_laser_observations" THEN SevenDays ELSE ThreeDays

\* u_clean = u[(u > lower_limit) & (u < upper_limit)]
reject_outliers(s, w, k) ==
    Filter(s, [i \in 1..Len(s) |-> inside_limits(s, i, w, k)])

\* A later observation joins the series the step is given
Observe ==
    /\ pc = "cleaned"
    /\ Len(u) < MaxOutlierLen
    /\ \E gap \in Gaps, x \in OutlierValues :
           u' = Append(u, [t |-> (IF u = <<>> THEN 0 ELSE u[Len(u)].t) + gap,
                           v |-> x])
    /\ pc' = "outlier"
    /\ UNCHANGED <<fn, u0, jump, jump_val, run, out1, outlierVars, laterVars>>

\* Lines 726-730 / 2348-2352 / 1005-1009: the limits and the cleaned series
RejectOutliers ==
    /\ pc = "outlier"
    /\ u_clean' = reject_outliers(u, window_of(fn), threshold)
    /\ pc' = "cleaned"
    /\ UNCHANGED <<fn, u0, u, jump, jump_val, run, out1, threshold, laterVars>>

OutlierInit ==
    /\ fn \in OutlierFunctions
    /\ threshold \in Thresholds
    /\ u = <<>>
    /\ u_clean = <<>>
    /\ pc = "cleaned"
    /\ u0 = <<>>
    /\ jump = <<>>
    /\ jump_val = NaN
    /\ run = 1
    /\ out1 = <<>>
    /\ LaterIdle

OutlierNext == Observe \/ RejectOutliers

OutlierSpec == OutlierInit /\ [][OutlierNext]_vars

---------------------------------------------------------------------------
(* Accumulation conversion: filter_gnssir, lines 2354-2365.                *)
(*                                                                         *)
(* Here timestamps count ticks; a 15-minute bin holds TicksPerBin ticks    *)
(* and a day BinsPerDay bins.  A median of integers is a half integer, so  *)
(* the 15-minute medians are kept as 2 x value and the daily medians and   *)
(* the accumulation as 4 x value.                                          *)

\* the labels of the bins of length n that resample() produces: every bin
\* from the first to the last sample
bins(s, n) ==
    IF s = <<>> THEN {}
    ELSE (s[1].t \div n)..(s[Len(s)].t \div n)

\* s.resample(n).median(): the median of the valid values of each bin
\* (scaled by 2), NaN for a bin without any; labels are bin starts
resample_median(s, n) ==
    LET first == s[1].t \div n
        value(b) ==
            LET xs == window_values(s, {j \in 1..Len(s) : s[j].t \div n = b})
            IN  IF xs = <<>> THEN NaN ELSE Num(median2(xs))
    IN  [k \in 1..Cardinality(bins(s, n)) |->
            [t |-> (first + k - 1) * n, v |-> value(first + k - 1)]]

\* s.dropna()
dropna(s) == Filter(s, [i \in 1..Len(s) |-> ~s[i].v.nan])

\* s.max(): the largest valid value, NaN when there is none
series_max(s) ==
    IF dropna(s) = <<>> THEN NaN
    ELSE LET d == dropna(s)
         IN  d[CHOOSE i \in 1..Len(d) : \A j \in 1..Len(d) : d[j].v.x <= d[i].v.x].v

\* c - s for a scalar c given as 4 x value and a series given as 2 x value
scalar_minus(c, s) ==
    [i \in 1..Len(s) |->
        [t |-> s[i].t,
         v |-> IF c.nan \/ s[i].v.nan THEN NaN ELSE Num(c.x - 2 * s[i].v.x)]]

\* Lines 2354-2356: gnssir_rh_clean.resample('15min').median().dropna()
\* and its resample('D').median()
Resample ==
    /\ pc = "resample"
    /\ gnssir_rh_clean' = dropna(resample_median(u_clean, TicksPerBin))
    /\ gnssir_rh_clean_daily' =
           resample_median(gnssir_rh_clean', TicksPerBin * BinsPerDay)
    /\ pc' = "accumulate"
    /\ UNCHANGED <<fn, u0, u, jump, jump_val, run, out1, outlierVars,
                   gnssir_acc, densityVars, restVars>>

\* Line 2359: gnssir_acc = (gnssir_rh_clean_daily.max() - gnssir_rh_clean)
Accumulate ==
    /\ pc = "accumulate"
    /\ gnssir_acc' = scalar_minus(series_max(gnssir_rh_clean_daily),
                                  gnssir_rh_clean)
    /\ pc' = "accumulated"
    /\ UNCHANGED <<fn, u0, u, jump, jump_val, run, out1, outlierVars,
                   gnssir_rh_clean, gnssir_rh_clean_daily, densityVars,
                   restVars>>

\* the cleaned reflector heights (mm) the conversion is given: up to
\* MaxAccLen valid samples, a tick, a bin or a day apart
AccValues == {Num(n) : n \in {0, 10, 30}}

AccGaps == {1, TicksPerBin, TicksPerBin * BinsPerDay}

RECURSIVE AccSeries(_)
AccSeries(n) ==
    IF n = 0 THEN {<<>>}
    ELSE LET shorter == AccSeries(n - 1)
         IN  shorter \cup
             {Append(s, [t |-> (IF s = <<>> THEN 0 ELSE s[Len(s)].t + g),
                         v |-> x]) :
                  s \in {r \in shorter : Len(r) = n - 1},
                  g \in AccGaps, x \in AccValues}

AccInit ==
    /\ fn = "filter_gnssir"
    /\ pc = "resample"
    /\ threshold = DefaultThreshold
    /\ u_clean \in AccSeries(MaxAccLen)
    /\ JumpIdle
    /\ AccIdle
    /\ DensityIdle
    /\ RestIdle

AccNext == Resample \/ Accumulate

AccSpec == AccInit /\ [][AccNext]_vars

---------------------------------------------------------------------------
(* Density: convert_swesh2density, lines 1098-1108.                        *)
(*                                                                         *)
(* A density is an extended rational [k, n, d]: k = "num" is n/d with      *)
(* d > 0, k = "pinf" / "ninf" are the infinities a division by 0 gives,    *)
(* k = "nan" is NaN.  Timestamps count ticks, TicksPerBin * BinsPerDay to  *)
(* a day; cal_date is a day.                                               *)

TicksPerDay == TicksPerBin * BinsPerDay

Q(n, d) == [k |-> "num", n |-> n, d |-> d]
QNaN == [k |-> "nan", n |-> 0, d |-> 1]
QPInf == [k |-> "pinf", n |-> 0, d |-> 1]
QNInf == [k |-> "ninf", n |-> 0, d |-> 1]

\* a / b on floats, a and b numbers or NaN: x/0 is +-inf, 0/0 is NaN
fdiv(a, b) ==
    IF a.nan \/ b.nan THEN QNaN
    ELSE IF b.x = 0
         THEN (IF a.x > 0 THEN QPInf ELSE IF a.x < 0 THEN QNInf ELSE QNaN)
         ELSE IF b.x > 0 THEN Q(a.x, b.x) ELSE Q(0 - a.x, 0 - b.x)

\* a < b on extended rationals: False when either side is NaN
qlt(a, b) ==
    /\ a.k # "nan" /\ b.k # "nan"
    /\ \/ a.k = "ninf" /\ b.k # "ninf"
       \/ a.k # "pinf" /\ b.k = "pinf"
       \/ a.k = "num" /\ b.k = "num" /\ a.n * b.d < b.n * a.d

\* a + b on extended rationals
qadd(a, b) ==
    IF a.k = "nan" \/ b.k = "nan" THEN QNaN
    ELSE IF a.k = "num" /\ b.k = "num" THEN Q(a.n * b.d + b.n * a.d, a.d * b.d)
    ELSE IF a.k = "num" THEN b
    ELSE IF b.k = "num" \/ a.k = b.k THEN a
    ELSE QNaN

\* -a
qneg(a) ==
    IF a.k = "num" THEN Q(0 - a.n, a.d)
    ELSE IF a.k = "pinf" THEN QNInf
    ELSE IF a.k = "ninf" THEN QPInf
    ELSE QNaN

\* a / 2
qhalf(a) == IF a.k = "num" THEN Q(a.n, 2 * a.d) ELSE a

\* a sequence of extended rationals (no NaN) in ascending order
qsorted(xs) ==
    LET insert(x, ys) ==
            LET k == Cardinality({m \in 1..Len(ys) : ~qlt(x, ys[m])})
            IN  SubSeq(ys, 1, k) \o <<x>> \o SubSeq(ys, k + 1, Len(ys))
        F[j \in 0..Len(xs)] ==
            IF j = 0 THEN <<>> ELSE insert(xs[j], F[j - 1])
    IN  F[Len(xs)]

\* the median of a sequence of extended rationals; NaN when it is empty
qmedian(xs) ==
    LET ys == qsorted(xs)
        n  == Len(ys)
    IN  IF n = 0 THEN QNaN
        ELSE IF n % 2 = 1 THEN ys[(n + 1) \div 2]
        ELSE qhalf(qadd(ys[n \div 2], ys[n \div 2 + 1]))

\* the values of the samples of s at the positions idx, in index order
values_at(s, idx) ==
    LET F[j \in 0..Len(s)] ==
            IF j = 0 THEN <<>>
            ELSE IF j \in idx THEN Append(F[j - 1], s[j].v) ELSE F[j - 1]
    IN  F[Len(s)]

\* the timestamps of a series
index_of(s) == {s[i].t : i \in 1..Len(s)}

\* the value of s at timestamp t, NaN when s has no sample there
value_or_nan(s, t) ==
    IF t \in index_of(s) THEN Loc(s, t) ELSE NaN

\* the timestamps of a set in ascending order
RECURSIVE ascending(_)
ascending(ts) ==
    IF ts = {} THEN <<>>
    ELSE LET m == CHOOSE x \in ts : \A y \in ts : x <= y
         IN  <<m>> \o ascending(ts \ {m})

\* ((swe * 1000).divide(sh, axis=0)).dropna(): the division aligns the two
\* series on the union of their timestamps, a sample missing on either side
\* gives NaN, and dropna() removes the NaN (not the infinities)
raw_density(a, b) ==
    LET idx == ascending(index_of(a) \cup index_of(b))
        all == [i \in 1..Len(idx) |->
                   [t |-> idx[i],
                    v |-> LET x == value_or_nan(a, idx[i])
                          IN  fdiv(IF x.nan THEN NaN ELSE Num(x.x * 1000),
                                   value_or_nan(b, idx[i]))]]
    IN  Filter(all, [i \in 1..Len(all) |-> all[i].v.k # "nan"])

\* the days density.resample('D') has a row for
density_days(s) ==
    IF s = <<>> THEN {}
    ELSE (s[1].t \div TicksPerDay)..(s[Len(s)].t \div TicksPerDay)

\* density.resample('D').median()[day]
daily_median(s, day) ==
    qmedian(values_at(s, {j \in 1..Len(s) : s[j].t \div TicksPerDay = day}))

\* density.rolling('7D').median() at sample i: the window is
\* (t - 7 days, t]; rolling takes infinite values as missing
rolling_median_7D(s, i) ==
    qmedian(values_at(s, {j \in rolling(s, i, SevenDays * TicksPerDay) :
                               s[j].v.k = "num"}))

\* ~((density_fil < 50) | (density_fil >= 830)) for one value
within_bounds(x) == ~(qlt(x, Q(MinDensity, 1)) \/ (x.k # "nan" /\ ~qlt(x, Q(MaxDensity, 1))))

\* Line 1099: the raw density
CalcDensity ==
    /\ pc = "density"
    /\ density' = raw_density(swe, sh)
    /\ pc' = "calibrate"
    /\ UNCHANGED <<fn, u0, u, jump, jump_val, run, out1, outlierVars,
                   accVars, swe, sh, cal_date, cal_val, cal, density_fil,
                   density_cleaned, restVars>>

\* Lines 1102-1108: the calibration offset, the smoothed and shifted
\* series, the bounds.  [cal_date] raises KeyError when the daily series
\* has no row for that day.
Calibrate ==
    /\ pc = "calibrate"
    /\ IF cal_date \notin density_days(density)
       THEN /\ pc' = "raised"
            /\ UNCHANGED <<cal, density_fil, density_cleaned>>
       ELSE /\ cal' = qadd(Q(cal_val, 1), qneg(daily_median(density, cal_date)))
            /\ density_fil' =
                   [i \in 1..Len(density) |->
                       [t |-> density[i].t,
                        v |-> qadd(rolling_median_7D(density, i), cal')]]
            /\ density_cleaned' =
                   Filter(density_fil',
                          [i \in 1..Len(density) |->
                              within_bounds(density_fil'[i].v)])
            /\ pc' = "returned"
    /\ UNCHANGED <<fn, u0, u, jump, jump_val, run, out1, outlierVars,
                   accVars, swe, sh, cal_date, cal_val, density, restVars>>

\* the paired inputs: SWE (mm w.e.) and accumulation at one timestamp;
\* NaN stands for a series without a sample there
DensityPairs ==
    {<<Num(10), Num(25)>>, <<Num(9), Num(25)>>, <<Num(30), Num(25)>>,
     <<Num(10), Num(0)>>, <<Num(0), Num(0)>>, <<Num(10), NaN>>}

\* the reference densities given as cal_val
CalVals == {420}

DensityGaps == {1, TicksPerDay, 2 * TicksPerDay, SevenDays * TicksPerDay}

RECURSIVE PairSeries(_)
PairSeries(n) ==
    IF n = 0 THEN {<<>>}
    ELSE LET shorter == PairSeries(n - 1)
         IN  shorter \cup
             {Append(s, [t |-> (IF s = <<>> THEN 0 ELSE s[Len(s)].t + g),
                         v |-> p]) :
                  s \in {r \in shorter : Len(r) = n - 1},
                  g \in DensityGaps, p \in DensityPairs}

\* one side of a paired series, without the timestamps it has no sample at
side(ps, k) ==
    Filter([i \in 1..Len(ps) |-> [t |-> ps[i].t, v |-> ps[i].v[k]]],
           [i \in 1..Len(ps) |-> ~ps[i].v[k].nan])

DensityInit ==
    /\ fn = "convert_swesh2density"
    /\ pc = "density"
    /\ \E ps \in PairSeries(MaxDensityLen) :
           /\ swe = side(ps, 1)
           /\ sh = side(ps, 2)
    /\ cal_date \in 0..MaxCalDay
    /\ cal_val \in CalVals
    /\ density = <<>>
    /\ cal = QNaN
    /\ density_fil = <<>>
    /\ density_cleaned = <<>>
    /\ JumpIdle
    /\ threshold = DefaultThreshold
    /\ u_clean = <<>>
    /\ AccIdle
    /\ RestIdle

DensityNext == CalcDensity \/ Calibrate

DensitySpec == DensityInit /\ [][DensityNext]_vars

---------------------------------------------------------------------------
(* Ingestion: get_rtklib_solutions, lines 635-684, and read_gnssir, lines  *)
(* 2250-2295.  A row of the rtklib series is [t, v]; a row of the          *)
(* reflectometry series also carries the columns doy and utc its index is  *)
(* computed from (one year is modelled).                                   *)

\* index.duplicated(keep='first'): True for a row that has an earlier row
\* with the same timestamp
duplicated_keep_first(s) ==
    [i \in 1..Len(s) |-> \E j \in 1..(i - 1) : s[j].t = s[i].t]

\* index.duplicated(keep='last'): True for a row that has a later row with
\* the same timestamp
duplicated(s) ==
    [i \in 1..Len(s) |-> \E j \in (i + 1)..Len(s) : s[j].t = s[i].t]

\* frame[~frame.index.duplicated(keep='last')]
drop_duplicated(s) ==
    LET dup == duplicated(s)
    IN  Filter(s, [i \in 1..Len(s) |-> ~dup[i]])

\* pd.concat of the frames read from the files, in the order glob gives
RECURSIVE concat_files(_)
concat_files(files) ==
    IF files = <<>> THEN <<>>
    ELSE files[1] \o concat_files(Tail(files))

IngestFunctions == {"get_rtklib_solutions", "read_gnssir"}

IngestValues == {1, 2}

\* a solution file: one or two rows in time order
EnuFiles ==
    {<<[t |-> t, v |-> v]>> : t \in 1..MaxTimestamp, v \in IngestValues}
    \cup {f \in {<<[t |-> t1, v |-> v1], [t |-> t2, v |-> v2]>> :
              t1 \in 1..MaxTimestamp, t2 \in 2..MaxTimestamp,
              v1 \in IngestValues, v2 \in IngestValues} :
                f[1].t < f[2].t}

\* the files of one run, in any order
RECURSIVE FileSeqs(_, _)
FileSeqs(files, n) ==
    IF n = 0 THEN {<<>>}
    ELSE LET shorter == FileSeqs(files, n - 1)
         IN  shorter \cup {Append(s, f) : s \in shorter, f \in files}

EnuBatches == FileSeqs(EnuFiles, MaxFiles)

\* a reflectometry file of one day, read without an index: one row, or
\* two rows whose times fall into the same second
RhFiles ==
    LET row(d, c, v) == [t |-> 0, v |-> v, doy |-> d, utc |-> c]
    IN  {<<row(d, c, v)>> :
             d \in 1..MaxDoy, c \in 0..TicksPerSecond, v \in IngestValues}
        \cup {<<row(d, 0, v[1]), row(d, 1, v[2])>> :
                  d \in 1..MaxDoy, v \in IngestValues \X IngestValues}

\* one file per day name
RhBatches ==
    {b \in FileSeqs(RhFiles, MaxFiles) :
         \A i, j \in 1..Len(b) : i # j => b[i][1].doy # b[j][1].doy}

\* the values the rows of a batch hold for each of its timestamps, over the
\* values of the batches before it
record_batch(old, batch) ==
    [t \in (DOMAIN old) \cup index_of(batch) |->
        IF t \in index_of(batch)
        THEN {batch[i].v : i \in {j \in 1..Len(batch) : batch[j].t = t}}
        ELSE old[t]]

\* One run of get_rtklib_solutions: the files of the temporary directory
\* are read in glob order and appended to the stored frame, the rows that
\* have a later row with the same timestamp are dropped, the frame is
\* stored.
GetRtklibSolutions ==
    /\ fn = "get_rtklib_solutions"
    /\ pc = "ingest"
    /\ runs < MaxRuns
    /\ \E files \in EnuBatches :
           LET df_enu_new   == concat_files(files)
               df_enu_total == df_enu \o df_enu_new
           IN  /\ df_enu' = drop_duplicated(df_enu_total)
               /\ latest' = record_batch(latest, df_enu_new)
    /\ df_old' = df_enu
    /\ runs' = runs + 1
    /\ UNCHANGED <<fn, pc, u0, u, jump, jump_val, run, out1, outlierVars,
                   accVars, densityVars, df_rh, admitVars, compareVars,
                   lastVars>>

\* to_datetime(year * 1000 + doy) + to_timedelta(UTCtime), floored to the
\* second
datetime_index(row) ==
    row.doy * SecondsPerDay + row.utc \div TicksPerSecond

\* the day of the last stored row; the default when nothing is stored
old_idx_doy(s) ==
    IF s = <<>> THEN DefaultDoy ELSE s[Len(s)].t \div SecondsPerDay

\* the files whose name is of a later day than old_idx_doy, in glob order
newer_files(files, doy) ==
    SelectSeq(files, LAMBDA f : f[1].doy > doy)

\* One run of read_gnssir: the files of a later day than the last stored
\* row are appended, the index is computed again for every row, the rows
\* that have a later row with the same timestamp are dropped, the frame is
\* stored.  Without any row the frame has no column year: line 2282
\* raises.
ReadGnssir ==
    /\ fn = "read_gnssir"
    /\ pc \in {"ingest", "raised"}
    /\ runs < MaxRuns
    /\ \E files \in RhBatches :
           LET rh      == concat_files(newer_files(files, old_idx_doy(df_rh)))
               total   == df_rh \o rh
               indexed == [i \in 1..Len(total) |->
                              [total[i] EXCEPT !.t = datetime_index(total[i])]]
               batch   == [i \in 1..Len(rh) |->
                              [rh[i] EXCEPT !.t = datetime_index(rh[i])]]
           IN  IF total = <<>>
               THEN /\ pc' = "raised"
                    /\ UNCHANGED <<df_rh, latest>>
               ELSE /\ pc' = "ingest"
                    /\ df_rh' = drop_duplicated(indexed)
                    /\ latest' = record_batch(latest, batch)
    /\ df_old' = df_rh
    /\ runs' = runs + 1
    /\ UNCHANGED <<fn, u0, u, jump, jump_val, run, out1, outlierVars,
                   accVars, densityVars, df_enu, admitVars, compareVars,
                   lastVars>>

IngestInit ==
    /\ fn \in IngestFunctions
    /\ pc = "ingest"
    /\ IngestIdle
    /\ AdmitIdle
    /\ CompareIdle
    /\ LastIdle
    /\ JumpIdle
    /\ threshold = DefaultThreshold
    /\ u_clean = <<>>
    /\ AccIdle
    /\ DensityIdle

IngestNext == GetRtklibSolutions \/ ReadGnssir

IngestSpec == IngestInit /\ [][IngestNext]_vars

---------------------------------------------------------------------------
(* Admission: filter_rtklib_solutions, lines 702-707 (the same statements  *)
(* are lines 582-586 of preprocess.py).  A row of df_enu is                *)
(* [t, v, amb_state], v the up component in m.  ambiguity is               *)
(* [scalar, v]: a requested state s is [TRUE, <<s>>], the default of the   *)
(* signature, the list [1, 2, 5], is [FALSE, <<1, 2, 5>>].                 *)

\* the frame as it is given: no sort
sort_index_none(s) == s

\* fil_df.sort_index(): the rows in ascending timestamp order (the
\* timestamps of the stored solutions are distinct)
sort_index(s) ==
    LET idx == ascending(index_of(s))
    IN  [i \in 1..Len(idx) |-> s[CHOOSE j \in 1..Len(s) : s[j].t = idx[i]]]

\* df_enu.amb_state == ambiguity: a state is compared with every row, a
\* list row by row
amb_mask(s, a) ==
    [i \in 1..Len(s) |->
        s[i].amb_state = (IF a.scalar THEN a.v[1] ELSE a.v[i])]

\* fil_df.U * 1000: the up component in mm
up_mm(s) == [i \in 1..Len(s) |-> [t |-> s[i].t, v |-> Num(s[i].v * 1000)]]

\* Lines 704-707.  The comparison with a list of another length than the
\* frame raises ValueError.
Admit ==
    /\ pc = "admit"
    /\ IF ~ambiguity.scalar /\ Len(ambiguity.v) # Len(df_enu)
       THEN /\ pc' = "value_error"
            /\ UNCHANGED <<fil_df, u0, u>>
       ELSE /\ fil_df' = sort_index(Filter(df_enu, amb_mask(df_enu, ambiguity)))
            /\ u' = up_mm(fil_df')
            /\ u0' = u'
            /\ pc' = "detect"
    /\ UNCHANGED <<fn, jump, jump_val, run, out1, outlierVars, accVars,
                   densityVars, ingestVars, ambiguity, compareVars,
                   lastVars>>

\* 1: fixed, 2: float, 5: standalone
AmbiguityStates == {1, 2, 5}

DefaultAmbiguity == <<1, 2, 5>>

Ambiguities ==
    {[scalar |-> TRUE, v |-> <<s>>] : s \in AmbiguityStates}
    \cup {[scalar |-> FALSE, v |-> DefaultAmbiguity]}

\* the up components, m
UpValues == {0, 2}

\* the stored solutions: distinct timestamps in any order
RECURSIVE EnuInputs(_)
EnuInputs(n) ==
    IF n = 0 THEN {<<>>}
    ELSE LET shorter == EnuInputs(n - 1)
         IN  shorter \cup
             {Append(s, [t |-> t, v |-> v, amb_state |-> a]) :
                  s \in {r \in shorter : Len(r) = n - 1},
                  t \in 1..MaxAdmitLen, v \in UpValues,
                  a \in AmbiguityStates}

AdmitInit ==
    /\ fn = "filter_rtklib_solutions"
    /\ pc = "admit"
    /\ df_enu \in {s \in EnuInputs(MaxAdmitLen) :
                       \A i, j \in 1..Len(s) : s[i].t = s[j].t => i = j}
    /\ ambiguity \in Ambiguities
    /\ fil_df = <<>>
    /\ df_rh = <<>>
    /\ df_old = <<>>
    /\ latest = <<>>
    /\ runs = 0
    /\ CompareIdle
    /\ LastIdle
    /\ JumpIdle
    /\ threshold = DefaultThreshold
    /\ u_clean = <<>>
    /\ AccIdle
    /\ DensityIdle

AdmitNext == Admit \/ DetectJump \/ CorrectJump \/ NoJump

AdmitSpec == AdmitInit /\ [][AdmitNext]_vars

---------------------------------------------------------------------------
(* Comparison: calculate_differences2gnss, lines 1194-1238, and the three  *)
(* statistics calculate_rmse, lines 1433-1452, calculate_linearfit, lines  *)
(* 1343-1347, calculate_crosscorr, lines 1288-1293.  Each statistic is     *)
(* modelled for its first pair of series, the manual observations and the  *)
(* Leica estimates; the other pairs run the same statements.               *)

\* a - b of two series: aligned on the union of the timestamps, NaN where
\* either side has no sample
series_sub(a, b) ==
    LET idx == ascending(index_of(a) \cup index_of(b))
    IN  [i \in 1..Len(idx) |->
            [t |-> idx[i],
             v |-> Sub(value_or_nan(a, idx[i]), value_or_nan(b, idx[i]))]]

\* pd.concat([dswe_emlid, dswe_manual, dswe_manual_emlid], axis=1): one row
\* for every timestamp of any column, NaN where a column has no sample
concat_columns(c1, c2, c3) ==
    LET idx == ascending(index_of(c1) \cup index_of(c2) \cup index_of(c3))
    IN  [i \in 1..Len(idx) |->
            [t |-> idx[i],
             dswe_emlid |-> value_or_nan(c1, idx[i]),
             dswe_manual |-> value_or_nan(c2, idx[i]),
             dswe_manual_emlid |-> value_or_nan(c3, idx[i])]]

\* Lines 1194-1238
CalculateDifferences2gnss ==
    /\ pc = "differences"
    /\ diffs_daily' = concat_columns(dropna(series_sub(emlid, leica)),
                                     dropna(series_sub(manual, leica)),
                                     dropna(series_sub(manual, emlid)))
    /\ pc' = "compare"
    /\ UNCHANGED <<fn, u0, u, jump, jump_val, run, out1, outlierVars, accVars,
                   densityVars, ingestVars, admitVars, lastVars, manual,
                   leica, emlid, result>>

\* the column dswe_manual of the frame
column_manual(frame) ==
    [i \in 1..Len(frame) |-> [t |-> frame[i].t, v |-> frame[i].dswe_manual]]

\* len(column): the rows of the frame, NaN included
len_rows(col) == Len(col)

\* len(column.dropna())
len_valid(col) == Len(dropna(col))

\* np.sum(column ** 2): the sum skips NaN
sum_of_squares(col) ==
    LET d == dropna(col)
        F[j \in 0..Len(d)] ==
            IF j = 0 THEN 0 ELSE F[j - 1] + d[j].v.x * d[j].v.x
    IN  F[Len(d)]

\* Lines 1435-1436, 1445-1446: rmse_manual is sqrt(num / den), NaN for
\* 0 / 0, and is printed; n_manual is printed
CalculateRmse ==
    /\ pc = "compare"
    /\ fn = "calculate_rmse"
    /\ LET col == column_manual(diffs_daily)
       IN  result' = [kind |-> IF len_rows(col) = 0 THEN "nan" ELSE "value",
                      num  |-> sum_of_squares(col),
                      den  |-> len_rows(col),
                      n    |-> len_valid(col)]
    /\ pc' = "printed"
    /\ UNCHANGED <<fn, u0, u, jump, jump_val, run, out1, outlierVars, accVars,
                   densityVars, ingestVars, admitVars, lastVars, manual,
                   leica, emlid, diffs_daily>>

\* the timestamps both series have a value at
paired(a, b) == ascending(index_of(a) \cap index_of(b))

\* the sum of the values of a at the timestamps ts
sum_x(a, ts) ==
    LET F[j \in 0..Len(ts)] ==
            IF j = 0 THEN 0 ELSE F[j - 1] + Loc(a, ts[j]).x
    IN  F[Len(ts)]

\* the sum of the products of the values of a and b at the timestamps ts
sum_xy(a, b, ts) ==
    LET F[j \in 0..Len(ts)] ==
            IF j = 0 THEN 0
            ELSE F[j - 1] + Loc(a, ts[j]).x * Loc(b, ts[j]).x
    IN  F[Len(ts)]

\* n * sum(xy) - sum(x) * sum(y) over the timestamps ts
scaled_cov_over(a, b, ts) ==
    Len(ts) * sum_xy(a, b, ts) - sum_x(a, ts) * sum_x(b, ts)

\* the covariance of a and b over their paired samples, times n * n
scaled_cov(a, b) == scaled_cov_over(a, b, paired(a, b))

\* the variance of a over the samples paired with b, times n * n
paired_var(a, b) == scaled_cov_over(a, a, paired(a, b))

\* Lines 1343-1347: pd.concat(axis=1).dropna() keeps the paired rows;
\* np.polyfit raises TypeError for an empty x, and returns the solution of
\* a rank deficient system (with a warning) when x has one distinct value;
\* the slope num / den is printed
CalculateLinearfit ==
    /\ pc = "compare"
    /\ fn = "calculate_linearfit"
    /\ LET n == Len(paired(manual, leica))
       IN  IF n = 0
           THEN /\ result' = [kind |-> "TypeError", num |-> 0, den |-> 0,
                              n |-> n]
                /\ pc' = "raised"
           ELSE /\ result' =
                       [kind |-> IF paired_var(manual, leica) = 0
                                 THEN "rank_deficient" ELSE "value",
                        num  |-> scaled_cov(manual, leica),
                        den  |-> paired_var(manual, leica),
                        n    |-> n]
                /\ pc' = "printed"
    /\ UNCHANGED <<fn, u0, u, jump, jump_val, run, out1, outlierVars, accVars,
                   densityVars, ingestVars, admitVars, lastVars, manual,
                   leica, emlid, diffs_daily>>

\* Lines 1288-1290: Series.corr over the paired samples is NaN without
\* variance on either side, so with fewer than 2 pairs; it is printed.
\* The squared coefficient is num * num / den.
CalculateCrosscorr ==
    /\ pc = "compare"
    /\ fn = "calculate_crosscorr"
    /\ LET den == paired_var(manual, leica) * paired_var(leica, manual)
       IN  result' = [kind |-> IF den = 0 THEN "nan" ELSE "value",
                      num  |-> scaled_cov(manual, leica),
                      den  |-> den,
                      n    |-> Len(paired(manual, leica))]
    /\ pc' = "printed"
    /\ UNCHANGED <<fn, u0, u, jump, jump_val, run, out1, outlierVars, accVars,
                   densityVars, ingestVars, admitVars, lastVars, manual,
                   leica, emlid, diffs_daily>>

CompareFunctions ==
    {"calculate_rmse", "calculate_linearfit", "calculate_crosscorr"}

CompareValues == {NaN, Num(0), Num(2)}

\* the series over the timestamps 1..n, without the timestamps that have
\* no sample
CompareSeries(n) ==
    {dropna([i \in 1..n |-> [t |-> i, v |-> f[i]]]) :
         f \in [1..n -> CompareValues]}

CompareInit ==
    /\ fn \in CompareFunctions
    /\ pc = IF fn = "calculate_rmse" THEN "differences" ELSE "compare"
    /\ manual \in CompareSeries(MaxCompareLen)
    /\ leica \in CompareSeries(MaxCompareLen)
    /\ emlid \in CompareSeries(MaxCompareLen)
    /\ diffs_daily = <<>>
    /\ result = NoResult
    /\ JumpIdle
    /\ threshold = DefaultThreshold
    /\ u_clean = <<>>
    /\ AccIdle
    /\ DensityIdle
    /\ IngestIdle
    /\ AdmitIdle
    /\ LastIdle

CompareNext ==
    \/ CalculateDifferences2gnss
    \/ CalculateRmse
    \/ CalculateLinearfit
    \/ CalculateCrosscorr

CompareSpec == CompareInit /\ [][CompareNext]_vars

---------------------------------------------------------------------------
(* filter_gnssir as a whole, lines 2307-2359: the selection, then the jump *)
(* correction, the outlier step and the accumulation modelled above.  A    *)
(* row of df_rh is [t, RH, Azim, freq], RH in m.  The selector freq is     *)
(* [kind, code]: kind "all", "1st", "2nd", "single" (code is the           *)
(* frequency) or "list", the default of the signature, a list of ten       *)
(* entries.  Timestamps count ticks.                                       *)

\* the second frequencies and the first frequencies
SecondFrequencies == {5, 102, 205, 207}
FirstFrequencies == {1, 101, 201}

\* the number of entries of the default list of the signature
DefaultFreqLen == 10

\* Lines 2308-2319: the rows the selector keeps.  The default list is not
\* equal to 'all', '2nd' or '1st' and reaches df_rh.freq == freq, which
\* raises ValueError for a frame of another length than the list.
freq_mask(df, f) ==
    [i \in 1..Len(df) |->
        CASE f.kind = "all" -> TRUE
          [] f.kind = "2nd" -> df[i].freq \in SecondFrequencies
          [] f.kind = "1st" -> df[i].freq \in FirstFrequencies
          [] OTHER -> df[i].freq = f.code]

\* only the first of the two azimuth conditions
azimuth_mask_outer(df) ==
    [i \in 1..Len(df) |-> df[i].Azim > 30 /\ df[i].Azim < 310]

\* Lines 2322-2323: (Azim > 30) & (Azim < 310), then
\* (Azim > 210) | (Azim < 160)
azimuth_mask(df) ==
    [i \in 1..Len(df) |->
        /\ df[i].Azim > 30 /\ df[i].Azim < 310
        /\ (df[i].Azim > 210 \/ df[i].Azim < 160)]

\* .RH * 1000: the reflector height in mm
rh_mm(df) == [i \in 1..Len(df) |-> [t |-> df[i].t, v |-> Num(df[i].RH * 1000)]]

\* Lines 2308-2328: gnssir_rh as it enters the jump detection
select(df, f) ==
    LET byfreq == Filter(df, freq_mask(df, f))
    IN  sort_index(rh_mm(Filter(byfreq, azimuth_mask(byfreq))))

\* the selection raises
select_raises(df, f) == f.kind = "list" /\ Len(df) # DefaultFreqLen

\* the 3-day window, in ticks
window_ticks(f) == window_of(f) * TicksPerDay

\* Lines 2338-2344: the series the loop ends with
RECURSIVE correct_all(_, _, _)
correct_all(f, s, jv) ==
    LET j == detect(f, s)
    IN  IF j = <<>> THEN s ELSE correct_all(f, corrected(s, j, jv), jv)

\* What a call of filter_gnssir computes from df: how it ends, and
\* jump_val, the cleaned series and the returned series when it returns
filter_gnssir_result(df, f, k) ==
    IF select_raises(df, f)
    THEN [end |-> "value_error", jump_val |-> NaN, u_clean |-> <<>>,
          gnssir_rh_clean |-> <<>>, gnssir_acc |-> <<>>]
    ELSE LET s == select(df, f)
             j == detect("filter_gnssir", s)
         IN  IF j = <<>>
             THEN [end |-> "raised", jump_val |-> NaN, u_clean |-> <<>>,
                   gnssir_rh_clean |-> <<>>, gnssir_acc |-> <<>>]
             ELSE LET jv    == jump_value(s, jump_ind(j))
                      fixed == correct_all("filter_gnssir", s, jv)
                      clean == reject_outliers(fixed,
                                   window_ticks("filter_gnssir"), k)
                      quart == dropna(resample_median(clean, TicksPerBin))
                      daily == resample_median(quart, TicksPerDay)
                  IN  [end |-> "accumulated", jump_val |-> jv,
                       u_clean |-> clean, gnssir_rh_clean |-> quart,
                       gnssir_acc |-> scalar_minus(series_max(daily), quart)]

\* Lines 2308-2328
Select ==
    /\ pc = "select"
    /\ IF select_raises(df_rh, freq)
       THEN /\ pc' = "value_error"
            /\ UNCHANGED <<u0, u>>
       ELSE /\ u' = select(df_rh, freq)
            /\ u0' = u'
            /\ pc' = "detect"
    /\ UNCHANGED <<fn, jump, jump_val, run, out1, outlierVars, accVars,
                   densityVars, ingestVars, admitVars, compareVars, lastVars>>

\* Lines 2348-2352, after the loop has ended
GnssirOutliers ==
    /\ pc = "done"
    /\ u_clean' = reject_outliers(u, window_ticks(fn), threshold)
    /\ pc' = "resample"
    /\ UNCHANGED <<fn, u0, u, jump, jump_val, run, out1, threshold,
                   laterVars>>

FrequencySelectors ==
    {[kind |-> "all", code |-> 0], [kind |-> "2nd", code |-> 0],
     [kind |-> "single", code |-> 1], [kind |-> "list", code |-> 0]}

\* reflector heights (m), azimuths (degrees) and frequencies of the rows
RhValues == {0, 3}
Azimuths == {100, 180}
Frequencies == {1, 5}

\* the stored reflector heights: n rows at successive ticks, stored in
\* time order or against it
RhInputs(n) ==
    {[i \in 1..n |-> [t |-> IF up THEN i ELSE n + 1 - i, RH |-> r[i][1],
                      Azim |-> r[i][2], freq |-> r[i][3]]] :
         r \in [1..n -> RhValues \X Azimuths \X Frequencies],
         up \in BOOLEAN}

GnssirInit ==
    /\ fn = "filter_gnssir"
    /\ pc = "select"
    /\ df_rh \in UNION {RhInputs(n) : n \in 0..MaxRhLen}
    /\ freq \in FrequencySelectors
    /\ executed = {}
    /\ swe_gnss = <<>>
    /\ swe_gnss_daily = <<>>
    /\ written = {}
    /\ ipol_density = [given |-> FALSE, s |-> <<>>]
    /\ sh_back = <<>>
    /\ ExtraIdle
    /\ threshold = DefaultThreshold
    /\ u_clean = <<>>
    /\ JumpIdle
    /\ AccIdle
    /\ DensityIdle
    /\ df_enu = <<>>
    /\ df_old = <<>>
    /\ latest = <<>>
    /\ runs = 0
    /\ AdmitIdle
    /\ CompareIdle

GnssirNext ==
    \/ Select
    \/ DetectJump
    \/ CorrectJump
    \/ NoJump
    \/ GnssirOutliers
    \/ Resample
    \/ Accumulate

GnssirSpec == GnssirInit /\ [][GnssirNext]_vars

---------------------------------------------------------------------------
(* filter_rtklib_solutions as a whole, lines 702-754: the admission and    *)
(* the jump correction modelled above, then the outlier step, the median   *)
(* filter, the shift to positive values and the storing of the result.     *)
(* Timestamps count ticks; the 18 s added to the index are one tick.       *)
(* swe_gnss holds twice its values, swe_gnss_daily four times.             *)

\* pd.Timedelta(seconds=18), in ticks
IndexShift == 1

\* the window 'D' of the median filter, in ticks
median_window == TicksPerDay

\* Lines 726-730, after the loop has ended
RtklibOutliers ==
    /\ pc = "done"
    /\ u_clean' = reject_outliers(u, window_ticks(fn), threshold)
    /\ executed' = executed \cup {"outlier rejection"}
    /\ pc' = "smooth"
    /\ UNCHANGED <<fn, u0, u, jump, jump_val, run, out1, threshold, accVars,
                   densityVars, ingestVars, admitVars, compareVars, freq,
                   swe_gnss, swe_gnss_daily, written, moreVars>>

\* u_clean.rolling(window).median(): twice the median of the trailing
\* window of every sample
rolling_median(s, w) ==
    [i \in 1..Len(s) |->
        [t |-> s[i].t,
         v |-> LET xs == window_values(s, rolling(s, i, w))
               IN  IF xs = <<>> THEN NaN ELSE Num(median2(xs))]]

\* Line 734
MedianFilter ==
    /\ pc = "smooth"
    /\ swe_gnss' = rolling_median(u_clean, median_window)
    /\ executed' = executed \cup {"smoothing"}
    /\ pc' = "positive"
    /\ UNCHANGED <<fn, u0, u, jump, jump_val, run, out1, outlierVars, accVars,
                   densityVars, ingestVars, admitVars, compareVars, freq,
                   swe_gnss_daily, written, moreVars>>

\* swe_gnss.min(): the smallest valid value, NaN without one
series_min(s) ==
    IF dropna(s) = <<>> THEN NaN
    ELSE LET d == dropna(s)
         IN  d[CHOOSE i \in 1..Len(d) :
                   \A j \in 1..Len(d) : d[i].v.x <= d[j].v.x].v

\* swe_gnss.index + pd.Timedelta(seconds=18)
shift_index(s) == [i \in 1..Len(s) |-> [t |-> s[i].t + IndexShift, v |-> s[i].v]]

\* Lines 738-743
Positive ==
    /\ pc = "positive"
    /\ swe_gnss' = shift_index(SubScalar(swe_gnss, series_min(swe_gnss)))
    /\ swe_gnss_daily' = resample_median(swe_gnss', TicksPerDay)
    /\ executed' = executed \cup {"re-zero"}
    /\ pc' = "store"
    /\ UNCHANGED <<fn, u0, u, jump, jump_val, run, out1, outlierVars, accVars,
                   densityVars, ingestVars, admitVars, compareVars, freq,
                   written, moreVars>>

\* Lines 749-752: os.makedirs, to_pickle, to_csv
Store ==
    /\ pc = "store"
    /\ written' = written \cup {"SWE_results/", "swe_gnss.pkl", "swe_gnss.csv"}
    /\ pc' = "returned"
    /\ UNCHANGED <<fn, u0, u, jump, jump_val, run, out1, outlierVars, accVars,
                   densityVars, ingestVars, admitVars, compareVars, freq,
                   executed, swe_gnss, swe_gnss_daily, moreVars>>

\* the up components (m) and the ambiguity states of the rows
RtklibUpValues == {0, 1, 2}
RtklibStates == {1, 2}

\* the stored solutions: n rows at successive ticks, stored in time order
\* or against it
RtklibInputs(n) ==
    {[i \in 1..n |-> [t |-> IF up THEN i ELSE n + 1 - i, v |-> r[i][1],
                      amb_state |-> r[i][2]]] :
         r \in [1..n -> RtklibUpValues \X RtklibStates], up \in BOOLEAN}

RtklibInit ==
    /\ fn = "filter_rtklib_solutions"
    /\ pc = "admit"
    /\ df_enu \in UNION {RtklibInputs(n) : n \in 0..MaxAdmitLen}
    /\ ambiguity \in Ambiguities
    /\ fil_df = <<>>
    /\ df_rh = <<>>
    /\ df_old = <<>>
    /\ latest = <<>>
    /\ runs = 0
    /\ CompareIdle
    /\ LastIdle
    /\ JumpIdle
    /\ threshold = DefaultThreshold
    /\ u_clean = <<>>
    /\ AccIdle
    /\ DensityIdle

RtklibNext ==
    \/ Admit
    \/ DetectJump
    \/ CorrectJump
    \/ NoJump
    \/ RtklibOutliers
    \/ MedianFilter
    \/ Positive
    \/ Store

RtklibSpec == RtklibInit /\ [][RtklibNext]_vars

---------------------------------------------------------------------------
(* Unit conversion: convert_swe2sh, lines 1116-1123, and convert_sh2swe,   *)
(* lines 1132-1139.  The values are the extended rationals of the density  *)
(* model, so the arithmetic is exact: the rounding of the floating point   *)
(* operations is not modelled.  ipol_density is [given, s]: None is        *)
(* [FALSE, <<>>], a density series s is [TRUE, s].                         *)

\* the mean density of the constant conversions
MeanDensity == 408

\* a * b on extended rationals
qmul(a, b) ==
    IF a.k = "nan" \/ b.k = "nan" THEN QNaN
    ELSE IF a.k = "num" /\ b.k = "num" THEN Q(a.n * b.n, a.d * b.d)
    ELSE IF (a.k = "num" /\ a.n = 0) \/ (b.k = "num" /\ b.n = 0) THEN QNaN
    ELSE IF qlt(a, Q(0, 1)) = qlt(b, Q(0, 1)) THEN QPInf ELSE QNInf

\* a / b on extended rationals: x / 0 is +-inf, 0 / 0 is NaN
qdiv(a, b) ==
    IF a.k = "nan" \/ b.k = "nan" THEN QNaN
    ELSE IF a.k # "num" /\ b.k # "num" THEN QNaN
    ELSE IF b.k # "num" THEN Q(0, 1)
    ELSE IF a.k # "num"
         THEN (IF (b.n < 0) = (a.k = "pinf") THEN QNInf ELSE QPInf)
    ELSE IF b.n = 0
         THEN (IF a.n > 0 THEN QPInf ELSE IF a.n < 0 THEN QNInf ELSE QNaN)
    ELSE IF b.n > 0 THEN Q(a.n * b.d, a.d * b.n)
    ELSE Q(0 - a.n * b.d, 0 - a.d * b.n)

\* the value of s at timestamp t, NaN when s has no sample there
qvalue_or_nan(s, t) ==
    IF t \in index_of(s) THEN Loc(s, t) ELSE QNaN

\* s * c for a constant c
times(s, c) == [i \in 1..Len(s) |-> [t |-> s[i].t, v |-> qmul(s[i].v, c)]]

\* s / c for a constant c
over(s, c) == [i \in 1..Len(s) |-> [t |-> s[i].t, v |-> qdiv(s[i].v, c)]]

\* .dropna() of a series of extended rationals
qdropna(s) == Filter(s, [i \in 1..Len(s) |-> s[i].v.k # "nan"])

\* a.multiply(b, axis=0): aligned on the union of the timestamps, NaN where
\* either side has no sample
multiply(a, b) ==
    LET idx == ascending(index_of(a) \cup index_of(b))
    IN  [i \in 1..Len(idx) |->
            [t |-> idx[i],
             v |-> qmul(qvalue_or_nan(a, idx[i]), qvalue_or_nan(b, idx[i]))]]

\* a.divide(b, axis=0)
divide(a, b) ==
    LET idx == ascending(index_of(a) \cup index_of(b))
    IN  [i \in 1..Len(idx) |->
            [t |-> idx[i],
             v |-> qdiv(qvalue_or_nan(a, idx[i]), qvalue_or_nan(b, idx[i]))]]

\* Lines 1132-1137
convert_sh2swe(s, d) ==
    IF ~d.given THEN times(over(s, Q(1000, 1)), Q(MeanDensity, 1))
    ELSE qdropna(multiply(over(s, Q(1000, 1)), d.s))

\* the conversion without the factor 1000
convert_swe2sh_unscaled(s, d) ==
    IF ~d.given THEN over(s, Q(MeanDensity, 1))
    ELSE qdropna(divide(s, d.s))

\* Lines 1116-1121
convert_swe2sh(s, d) ==
    IF ~d.given THEN over(times(s, Q(1000, 1)), Q(MeanDensity, 1))
    ELSE qdropna(divide(times(s, Q(1000, 1)), d.s))

\* convert_sh2swe(sh, ipol_density)
ConvertSh2Swe ==
    /\ pc = "sh2swe"
    /\ swe' = convert_sh2swe(sh, ipol_density)
    /\ pc' = "swe2sh"
    /\ UNCHANGED <<fn, u0, u, jump, jump_val, run, out1, outlierVars, accVars,
                   sh, cal_date, cal_val, density, cal, density_fil,
                   density_cleaned, ingestVars, admitVars, compareVars,
                   freq, tailVars, ipol_density, sh_back, extraVars>>

\* convert_swe2sh(swe, ipol_density) of the series just returned
ConvertSwe2Sh ==
    /\ pc = "swe2sh"
    /\ sh_back' = convert_swe2sh(swe, ipol_density)
    /\ pc' = "converted"
    /\ UNCHANGED <<fn, u0, u, jump, jump_val, run, out1, outlierVars, accVars,
                   densityVars, ingestVars, admitVars, compareVars,
                   freq, tailVars, ipol_density, extraVars>>

\* the heights, NaN among them, and the densities of the inputs
HeightValues == {QNaN, Q(0, 1), Q(3, 1), Q(0 - 2, 1)}
DensityValues == {Q(0, 1), Q(300, 1), Q(MeanDensity, 1)}

\* the series that have a value of vals at some of the timestamps 1..n
SeriesOver(n, vals) ==
    UNION {{[i \in 1..Len(ts) |-> [t |-> ts[i], v |-> f[i]]] :
                 f \in [1..Len(ts) -> vals]} :
              ts \in {ascending(S) : S \in SUBSET (1..n)}}

ConvertInit ==
    /\ fn = "convert_sh2swe"
    /\ pc = "sh2swe"
    /\ sh \in SeriesOver(MaxConvertLen, HeightValues)
    /\ ipol_density \in
           {[given |-> FALSE, s |-> <<>>]}
           \cup {[given |-> TRUE, s |-> d] :
                     d \in SeriesOver(MaxConvertLen, DensityValues)}
    /\ swe = <<>>
    /\ sh_back = <<>>
    /\ cal_date = 0
    /\ cal_val = 0
    /\ density = <<>>
    /\ cal = QNaN
    /\ density_fil = <<>>
    /\ density_cleaned = <<>>
    /\ JumpIdle
    /\ threshold = DefaultThreshold
    /\ u_clean = <<>>
    /\ AccIdle
    /\ IngestIdle
    /\ AdmitIdle
    /\ CompareIdle
    /\ freq = [kind |-> "all", code |-> 0]
    /\ executed = {}
    /\ swe_gnss = <<>>
    /\ swe_gnss_daily = <<>>
    /\ written = {}
    /\ ExtraIdle

ConvertNext == ConvertSh2Swe \/ ConvertSwe2Sh

ConvertSpec == ConvertInit /\ [][ConvertNext]_vars

---------------------------------------------------------------------------
(* preprocess.py: the outlier step, the smoothing and the jump correction  *)
(* of filter_rtklib_solutions (lines 592-621) and the outlier step and the *)
(* smoothing of read_laser_observations (lines 767-774).                   *)
(*                                                                         *)
(* u is fil (dsh for the laser), the series in mm after admission and zero *)
(* reference; m and swe_gnss are kept as 2 x value.  resample is left at   *)
(* its default, for which "resample is True" is False.                     *)

MaxPreLen == 4
LaserThreshold == 1

PreFunctions ==
    {"preprocess.filter_rtklib_solutions", "preprocess.read_laser_observations"}

\* (fil > lower_limit) & (fil < upper_limit) at sample i, the limits being
\* fil.median() -/+ threshold * fil.std() of the whole series
inside_series_limits(s, i, k) ==
    LET xs == window_values(s, 1..Len(s))
        n  == Len(xs)
        d2 == 2 * s[i].v.x - median2(xs)
    IN  /\ ~s[i].v.nan
        /\ n >= 2
        /\ d2 * d2 * n * (n - 1) < 4 * k * k * scaled_var(xs)

\* fil_clean = fil[(fil > lower_limit) & (fil < upper_limit)]
reject_series_outliers(s, k) ==
    Filter(s, [i \in 1..Len(s) |-> inside_series_limits(s, i, k)])

\* jump = m[(m.diff() < -1000)], m holding 2 x value
smoothed_jump(s) ==
    Filter(s, [i \in 1..Len(s) |-> Lt(diff(s)[i], Num(0 - 2 * RtklibJump))])

\* s[(s.index > label)]
AfterLabel(s, label) == Filter(s, [i \in 1..Len(s) |-> s[i].t > label])

\* Lines 617-618: adj and m_adj
adjusted(s, j) ==
    BeforeLabel(s, jump_ind(j)) \o SubScalar(AfterLabel(s, jump_ind(j)), j[1].v)

\* the samples and the distances between them
PreValues == {Num(n) : n \in {0, 5, 0 - 1100, 0 - 2200}}
PreGaps == {1, SevenDays}

\* A call is given the series with one later sample
PreObserve ==
    /\ pc = "pre_cleaned"
    /\ Len(u) < MaxPreLen
    /\ \E gap \in PreGaps, x \in PreValues :
           u' = Append(u, [t |-> (IF u = <<>> THEN 0 ELSE u[Len(u)].t) + gap,
                           v |-> x])
    /\ pc' = "pre_outlier"
    /\ UNCHANGED <<fn, u0, jump, jump_val, run, out1, outlierVars, laterVars>>

\* Lines 594-596 / 768-770
PreOutliers ==
    /\ pc = "pre_outlier"
    /\ u_clean' = reject_series_outliers(u, threshold)
    /\ pc' = "pre_cleaned"
    /\ UNCHANGED <<fn, u0, u, jump, jump_val, run, out1, threshold, laterVars>>

\* Lines 605 / 773: fil_clean.rolling('D').median(); the laser function goes
\* on to the unit conversion
PreSmooth ==
    /\ pc = "pre_cleaned"
    /\ m_smooth' = rolling_median(u_clean, median_window)
    /\ pc' = IF fn = "preprocess.filter_rtklib_solutions"
             THEN "pre_jump" ELSE "pre_filtered"
    /\ UNCHANGED <<fn, u0, u, jump, jump_val, run, out1, outlierVars, accVars,
                   densityVars, ingestVars, admitVars, compareVars, freq,
                   tailVars, convertVars, tree, todo, outliers>>

\* Lines 610-621: m[0] of an empty series raises IndexError
PreJump ==
    /\ pc = "pre_jump"
    /\ jump' = smoothed_jump(m_smooth)
    /\ IF m_smooth = <<>>
       THEN /\ pc' = "raised"
            /\ UNCHANGED swe_gnss
       ELSE /\ pc' = "pre_returned"
            /\ swe_gnss' =
                   LET m_adj == IF jump' = <<>> THEN m_smooth
                                ELSE adjusted(m_smooth, jump')
                   IN  shift_index(SubScalar(m_adj, m_adj[1].v))
    /\ UNCHANGED <<fn, u0, u, jump_val, run, out1, outlierVars, accVars,
                   densityVars, ingestVars, admitVars, compareVars, freq,
                   executed, swe_gnss_daily, written, moreVars>>

PreInit ==
    /\ fn \in PreFunctions
    /\ threshold \in (IF fn = "preprocess.read_laser_observations"
                      THEN {LaserThreshold} ELSE Thresholds)
    /\ u = <<>>
    /\ u_clean = <<>>
    /\ pc = "pre_cleaned"
    /\ u0 = <<>>
    /\ jump = <<>>
    /\ jump_val = NaN
    /\ run = 1
    /\ out1 = <<>>
    /\ LaterIdle

PreNext == PreObserve \/ PreOutliers \/ PreSmooth \/ PreJump

PreSpec == PreInit /\ [][PreNext]_vars

---------------------------------------------------------------------------
(* Renaming of the rover files: convert_datetime2doy_rinexfiles,           *)
(* functions.py lines 318-360 (the same code in preprocess.py lines        *)
(* 262-303 and merge_rinex.py lines 35-64).                                *)
(*                                                                         *)
(* An input file is named after the minute its recording began, a renamed  *)
(* file after the day of year and a letter.  The content of an input file  *)
(* is the minute it was recorded at, that of a file already there Older.   *)

MaxRinexFiles == 4
MinutesPerDoy == 4
Older == 0 - 1

Letters == <<"a", "b", "c", "d">>

\* rover_prefix + datetime + '.' + yy + 'O'
input_name(minute) == [kind |-> "datetime", key |-> minute, letter |-> ""]

\* rover_name + doy + letter + '.' + yy + 'o'
doy_name(d, l) == [kind |-> "doy", key |-> d, letter |-> l]

\* strptime(..., "%Y%m%d%H%M").strftime('%j')
doy_of(minute) == minute \div MinutesPerDoy + 1

\* os.path.exists(name)
exists(dir, name) == \E f \in dir : f.name = name

\* os.rename(src, dst): dst is replaced when it exists
rename(dir, src, dst) ==
    LET f == CHOOSE g \in dir : g.name = src
    IN  {g \in dir : g.name \notin {src, dst}}
            \cup {[name |-> dst, content |-> f.content]}

\* Lines 335-358: the body of the loop for the file f.  The letter d is
\* assigned to new_filename and no rename follows it.
renamed(dir, f) ==
    LET d == doy_of(f.key)
    IN  IF ~exists(dir, doy_name(d, Letters[1]))
            THEN rename(dir, f, doy_name(d, Letters[1]))
        ELSE IF ~exists(dir, doy_name(d, Letters[2]))
            THEN rename(dir, f, doy_name(d, Letters[2]))
        ELSE IF ~exists(dir, doy_name(d, Letters[3]))
            THEN rename(dir, f, doy_name(d, Letters[3]))
        ELSE dir

\* One iteration of the loop over glob.iglob, which yields the files in
\* the order of the directory listing
RenameFile ==
    /\ pc = "rename"
    /\ \E f \in todo :
           /\ tree' = renamed(tree, f)
           /\ todo' = todo \ {f}
    /\ UNCHANGED <<fn, pc, u0, u, jump, jump_val, run, out1, outlierVars,
                   accVars, densityVars, ingestVars, admitVars, compareVars,
                   freq, tailVars, convertVars, m_smooth, outliers>>

\* Line 360: the loop has ended
RenameDone ==
    /\ pc = "rename"
    /\ todo = {}
    /\ pc' = "renamed"
    /\ UNCHANGED <<fn, u0, u, jump, jump_val, run, out1, outlierVars,
                   laterVars>>

\* the recording minutes of the input files: at most MaxRinexFiles files
RinexInputs ==
    {S \in SUBSET (0..(MaxDoy * MinutesPerDoy - 1)) :
         Cardinality(S) <= MaxRinexFiles}

\* the renamed files a previous call has left in the directory
RinexExisting == SUBSET {doy_name(1, Letters[1])}

RenameInit ==
    /\ fn = "convert_datetime2doy_rinexfiles"
    /\ pc = "rename"
    /\ \E S \in RinexInputs, E \in RinexExisting :
           /\ todo = {input_name(x) : x \in S}
           /\ tree = {[name |-> input_name(x), content |-> x] : x \in S}
                         \cup {[name |-> e, content |-> Older] : e \in E}
    /\ threshold = DefaultThreshold
    /\ u_clean = <<>>
    /\ JumpIdle
    /\ AccIdle
    /\ DensityIdle
    /\ IngestIdle
    /\ AdmitIdle
    /\ CompareIdle
    /\ freq = [kind |-> "all", code |-> 0]
    /\ executed = {}
    /\ swe_gnss = <<>>
    /\ swe_gnss_daily = <<>>
    /\ written = {}
    /\ ipol_density = [given |-> FALSE, s |-> <<>>]
    /\ sh_back = <<>>
    /\ m_smooth = <<>>
    /\ outliers = {}

RenameNext == RenameFile \/ RenameDone

RenameSpec == RenameInit /\ [][RenameNext]_vars

---------------------------------------------------------------------------
(* Gradient outliers of the laser: filter_laser_observations, functions.py *)
(* lines 1011-1019.                                                        *)
(*                                                                         *)
(* u is f_clean as it enters the loop: read_laser_observations has removed *)
(* duplicated timestamps and the comparisons of steps 1 and 2 have removed *)
(* the missing values.                                                     *)

MaxLaserLen == 4
GradientLimit == 500

\* f_clean.index[(gradient > 500)]: rising gradients only
gradient_outliers_rising(s) ==
    {s[i].t : i \in {j \in 1..Len(s) : Gt(diff(s)[j], Num(GradientLimit))}}

\* f_clean.index[(gradient > 500) | (gradient < -500)]
gradient_outliers(s) ==
    {s[i].t : i \in {j \in 1..Len(s) :
                         \/ Gt(diff(s)[j], Num(GradientLimit))
                         \/ Lt(diff(s)[j], Num(0 - GradientLimit))}}

\* f_clean.loc[~f_clean.index.isin(outliers)]
not_isin(s, labels) == Filter(s, [i \in 1..Len(s) |-> s[i].t \notin labels])

\* Lines 1013-1014
Gradient ==
    /\ pc = "gradient"
    /\ outliers' = gradient_outliers(u_clean)
    /\ pc' = "gradient_loop"
    /\ UNCHANGED <<fn, u0, u, jump, jump_val, run, out1, outlierVars, accVars,
                   densityVars, ingestVars, admitVars, compareVars, freq,
                   tailVars, convertVars, m_smooth, tree, todo>>

\* Lines 1015-1019: one iteration of while outliers.empty is False
RemoveGradientOutliers ==
    /\ pc = "gradient_loop"
    /\ outliers # {}
    /\ u_clean' = not_isin(u_clean, outliers)
    /\ outliers' = gradient_outliers(u_clean')
    /\ UNCHANGED <<fn, pc, u0, u, jump, jump_val, run, out1, threshold,
                   accVars, densityVars, ingestVars, admitVars, compareVars,
                   freq, tailVars, convertVars, m_smooth, tree, todo>>

\* Line 1015: the loop ends
GradientDone ==
    /\ pc = "gradient_loop"
    /\ outliers = {}
    /\ pc' = "gradient_done"
    /\ UNCHANGED <<fn, u0, u, jump, jump_val, run, out1, outlierVars,
                   laterVars>>

\* the accumulation values in mm
LaserValues == {Num(n) : n \in {0, 400, 800, 1200}}

\* the series of n samples at successive timestamps
LaserInputs(n) ==
    {[i \in 1..n |-> [t |-> i, v |-> f[i]]] : f \in [1..n -> LaserValues]}

LaserInit ==
    /\ fn = "filter_laser_observations"
    /\ pc = "gradient"
    /\ u \in UNION {LaserInputs(n) : n \in 0..MaxLaserLen}
    /\ u_clean = u
    /\ threshold = LaserThreshold
    /\ u0 = <<>>
    /\ jump = <<>>
    /\ jump_val = NaN
    /\ run = 1
    /\ out1 = <<>>
    /\ LaterIdle

LaserNext == Gradient \/ RemoveGradientOutliers \/ GradientDone

LaserSpec == LaserInit /\ [][LaserNext]_vars /\ WF_vars(LaserNext)

---------------------------------------------------------------------------
(* Properties of the jump correction *)

Abs(n) == IF n < 0 THEN 0 - n ELSE n

threshold_of(f) == IF f = "filter_rtklib_solutions" THEN RtklibJump ELSE GnssirJump

\* the difference d is a jump in the direction the function f looks for
Beyond(f, d) ==
    IF f = "filter_rtklib_solutions" THEN Lt(d, Num(0 - RtklibJump))
    ELSE Gt(d, Num(GnssirJump))

\* positions of the series whose difference to the previous sample is a jump
BreakPositions(f, s) == {i \in 2..Len(s) : Beyond(f, diff(s)[i])}

FirstBreak(f, s) == CHOOSE i \in BreakPositions(f, s) :
                        \A k \in BreakPositions(f, s) : i <= k

BreakValues(f, s) == {diff(s)[i] : i \in BreakPositions(f, s)}

\* C2: with several breaks of different magnitudes, every loop iteration
\* shifts by the jump value of the break it is correcting (the value at
\* that break minus the value just before it).
C2_OwnJumpValue ==
    (/\ fn = "filter_rtklib_solutions"
     /\ pc = "loop"
     /\ jump # <<>>
     /\ Cardinality(BreakValues(fn, u0)) >= 2)
        => jump_val = diff(u)[FirstBreak(fn, u)]

\* C3: the step applied to its own output completes normally and returns
\* that output unchanged.
C3_Idempotent ==
    (fn = "filter_rtklib_solutions" /\ run = 2 /\ pc # "detect")
        => (pc # "raised" /\ u = out1)

\* the series has exactly one break, at position k, with at least two
\* samples before it
OneBreakAt(s, k) ==
    /\ BreakPositions("filter_rtklib_solutions", s) = {k}
    /\ k >= 3

C6_NoJumpNoRaise ==
    (run = 1 /\ pc # "detect" /\ Len(u0) >= 2 /\ BreakPositions(fn, u0) = {})
        => (pc = "done" /\ u = u0)

\* C7: a first break at the second sample is left uncorrected.
C7_BreakAtSecondSample ==
    (/\ fn = "filter_rtklib_solutions"
     /\ run = 1
     /\ pc = "done"
     /\ BreakPositions(fn, u0) # {}
     /\ FirstBreak(fn, u0) = 2)
        => u = u0

\* the last valid sample before position k (0 when there is none)
LastValid(s, k) ==
    IF \E j \in 1..(k - 1) : ~s[j].v.nan
    THEN CHOOSE j \in 1..(k - 1) :
             /\ ~s[j].v.nan
             /\ \A m \in (j + 1)..(k - 1) : s[m].v.nan
    ELSE 0

\* the sample at k lies beyond the threshold from the last valid one
GapBreak(f, s, k) ==
    /\ ~s[k].v.nan
    /\ LastValid(s, k) > 0
    /\ Beyond(f, Sub(s[k].v, s[LastValid(s, k)].v))

\* C8: a break whose preceding sample is NaN is still detected, and the
\* jump value is the value after the break minus the last valid value
\* before it.
C8_LastValidBefore ==
    \A k \in 2..Len(u0) :
        (/\ run = 1
         /\ pc # "detect"
         /\ u0[k - 1].v.nan
         /\ GapBreak(fn, u0, k)
         /\ \A j \in 2..(k - 1) : ~GapBreak(fn, u0, j))
            => /\ pc # "raised"
               /\ jump_val = Sub(u0[k].v, u0[LastValid(u0, k)].v)

---------------------------------------------------------------------------
(* Properties of the outlier rejection *)

\* the sample with timestamp t is in the cleaned series
Retained(clean, t) == \E j \in 1..Len(clean) : clean[j].t = t

\* the valid samples of s in the window of length w ending at sample i
TrailingWindow(s, i, w) ==
    {j \in 1..Len(s) : /\ s[j].t <= s[i].t
                       /\ s[i].t - s[j].t < w
                       /\ ~s[j].v.nan}

\* the k-th smallest value among the samples at the positions idx
KthSmallest(s, idx, k) ==
    LET x(j) == s[j].v.x
    IN  x(CHOOSE j \in idx :
              /\ Cardinality({m \in idx : x(m) < x(j)}) < k
              /\ Cardinality({m \in idx : x(m) <= x(j)}) >= k)

RECURSIVE SumOver(_, _, _)
SumOver(s, idx, square) ==
    IF idx = {} THEN 0
    ELSE LET j == CHOOSE m \in idx : TRUE
             x == s[j].v.x
         IN  (IF square THEN x * x ELSE x) + SumOver(s, idx \ {j}, square)

\* sample i of s lies less than k standard deviations of its trailing
\* window from that window's median
WithinSigma(s, i, w, k) ==
    LET idx == TrailingWindow(s, i, w)
        n   == Cardinality(idx)
    IN  /\ ~s[i].v.nan
        /\ n >= 2
        /\ LET med2 == KthSmallest(s, idx, (n + 1) \div 2)
                       + KthSmallest(s, idx, n \div 2 + 1)
               dev2 == 2 * s[i].v.x - med2
               nvar == n * SumOver(s, idx, TRUE)
                       - SumOver(s, idx, FALSE) * SumOver(s, idx, FALSE)
           IN  dev2 * dev2 * n * (n - 1) <= 4 * k * k * nvar

\* C9: every retained sample lies within threshold standard deviations of
\* its own trailing window (3 days, 7 days for the laser) around that
\* window's median, both taken over the series before rejection.
C9_RetainedWithinLimits ==
    pc = "cleaned" =>
        \A i \in 1..Len(u) :
            Retained(u_clean, u[i].t) =>
                WithinSigma(u, i, window_of(fn), threshold)

\* a series where one sample with a full window is kept and another is
\* rejected as an outlier
C9_Witness ==
    /\ pc = "cleaned"
    /\ \E i, k \in 1..Len(u) :
           /\ Retained(u_clean, u[i].t)
           /\ ~Retained(u_clean, u[k].t)
           /\ Cardinality(TrailingWindow(u, k, window_of(fn))) >= 2
           /\ ~u[k].v.nan

\* C10: the decision taken for a sample does not change when later samples
\* join the series: two series that agree up to t agree on the decision
\* at t.
C10_ForwardCausal ==
    [][(pc = "outlier" /\ pc' = "cleaned"
        /\ fn \in {"filter_rtklib_solutions", "filter_gnssir"}) =>
           \A i \in 1..(Len(u) - 1) :
               Retained(u_clean, u[i].t) <=> Retained(u_clean', u[i].t)]_vars

\* an earlier sample is kept and another dropped after a later sample, itself
\* dropped, has joined the series
C10_Witness ==
    /\ pc = "cleaned"
    /\ fn \in {"filter_rtklib_solutions", "filter_gnssir"}
    /\ Len(u) >= 3
    /\ \E i \in 1..(Len(u) - 1) : Retained(u_clean, u[i].t)
    /\ \E i \in 1..(Len(u) - 1) : ~Retained(u_clean, u[i].t)
    /\ ~Retained(u_clean, u[Len(u)].t)

---------------------------------------------------------------------------
(* Properties of the accumulation conversion *)

\* C11: every value of gnssir_acc is greater than or equal to 0.
C11_AccNonNegative ==
    pc = "accumulated" =>
        \A i \in 1..Len(gnssir_acc) :
            ~gnssir_acc[i].v.nan /\ gnssir_acc[i].v.x >= 0

---------------------------------------------------------------------------
(* Properties of the density estimate *)

\* the positions of the raw density that fall on the calibration day
OnCalDate(s) == {i \in 1..Len(s) : s[i].t \div TicksPerDay = cal_date}

\* C12: every returned density satisfies 50 <= value < 830; no missing or
\* infinite value is returned.
C12_DensityBounds ==
    pc = "returned" =>
        \A i \in 1..Len(density_cleaned) :
            LET x == density_cleaned[i].v
            IN  /\ x.k = "num"
                /\ MinDensity * x.d <= x.n
                /\ x.n < MaxDensity * x.d

\* C13: the calibrated density at the calibration date equals cal_val
\* (stated for finite raw densities and a calibration day that holds one
\* density sample).
C13_CalibratedAtCalDate ==
    (/\ pc = "returned"
     /\ Cardinality(OnCalDate(density)) = 1
     /\ \A i \in 1..Len(density) : density[i].v.k = "num") =>
        \A i \in OnCalDate(density) :
            /\ density_fil[i].v.k = "num"
            /\ density_fil[i].v.n = cal_val * density_fil[i].v.d

\* C14: without a raw density sample on the calibration date the call
\* fails; it never returns a series.
C14_MissingCalibrationPoint ==
    (pc \in {"returned", "raised"} /\ OnCalDate(density) = {})
        => pc = "raised"

---------------------------------------------------------------------------
(* Properties of the ingestion *)

\* the stored series of the ingestion function being run
stored == IF fn = "read_gnssir" THEN df_rh ELSE df_enu

\* C15: after any sequence of ingestion runs the stored series holds at
\* most one observation per timestamp, and for each timestamp it is an
\* observation of the most recently ingested batch that contains it.
C15_OnePerTimestampLatestBatch ==
    /\ \A i, j \in 1..Len(stored) : stored[i].t = stored[j].t => i = j
    /\ {stored[i].t : i \in 1..Len(stored)} = DOMAIN latest
    /\ \A i \in 1..Len(stored) : stored[i].v \in latest[stored[i].t]

\* C15 witness: a run has replaced the observation stored for a timestamp.
C15_Witness ==
    /\ runs >= 2
    /\ \E i \in 1..Len(df_old), j \in 1..Len(stored) :
           /\ df_old[i].t = stored[j].t
           /\ df_old[i].v # stored[j].v

\* C16: the stored series is in non-decreasing timestamp order after every
\* ingestion run.
C16_StoredSorted ==
    \A i, j \in 1..Len(stored) : i < j => stored[i].t <= stored[j].t

---------------------------------------------------------------------------
(* Properties of the admission *)

\* the admission has run for a requested state
Admitted == pc \in {"detect", "loop", "done", "raised"}

\* C17: fil_df contains exactly the input observations whose amb_state
\* equals the requested ambiguity state, each once, in non-decreasing
\* timestamp order.
C17_AdmittedExactly ==
    (Admitted /\ ambiguity.scalar) =>
        /\ \A i, j \in 1..Len(fil_df) : i < j => fil_df[i].t <= fil_df[j].t
        /\ \A i, j \in 1..Len(fil_df) : fil_df[i] = fil_df[j] => i = j
        /\ {fil_df[i] : i \in 1..Len(fil_df)}
               = {df_enu[i] : i \in {j \in 1..Len(df_enu) :
                                        df_enu[j].amb_state = ambiguity.v[1]}}

\* C17 witness: tags [Fixed, Float, Fixed, Standalone] given out of time
\* order, Fixed requested: the rows 1 and 3 are kept, in time order.
C17_Witness ==
    /\ Admitted
    /\ ambiguity = [scalar |-> TRUE, v |-> <<1>>]
    /\ Len(df_enu) = 4
    /\ [i \in 1..4 |-> df_enu[i].amb_state] = <<1, 2, 1, 5>>
    /\ df_enu[3].t < df_enu[1].t
    /\ fil_df = <<df_enu[3], df_enu[1]>>

\* C18: when the admission leaves fewer than 2 observations the call ends
\* in an explicit insufficient-data condition.
C18_InsufficientData ==
    (Len(fil_df) < 2 /\ pc \in {"done", "raised"})
        => pc = "insufficient_data"

---------------------------------------------------------------------------
(* Properties of the comparison *)

\* the timestamps at which the manual and the Leica series both have a
\* value
Pairs == {manual[i].t : i \in 1..Len(manual)}
             \cap {leica[i].t : i \in 1..Len(leica)}

\* C19: with fewer than 2 paired non-missing samples each of the three
\* statistics ends in an explicit insufficient-overlap condition instead
\* of computing and printing a value.
\* (Stated in its weakest form: no value is computed and printed.)
C19_InsufficientOverlap ==
    (fn \in CompareFunctions /\ Cardinality(Pairs) < 2) => pc # "printed"

\* C20: the divisor of the mean of the squared differences equals the
\* number of timestamps at which both compared series have a value.
C20_DivisorIsPairedCount ==
    (pc = "printed" /\ fn = "calculate_rmse")
        => result.den = Cardinality(Pairs)

---------------------------------------------------------------------------
(* Properties of filter_gnssir as a whole *)

\* a row that is not excluded: its frequency is selected and its azimuth
\* is inside (30, 160) or (210, 310)
NotExcluded(row) ==
    /\ \/ freq.kind = "all"
       \/ freq.kind = "2nd" /\ row.freq \in {5, 102, 205, 207}
       \/ freq.kind = "1st" /\ row.freq \in {1, 101, 201}
       \/ freq.kind = "single" /\ row.freq = freq.code
    /\ \/ 30 < row.Azim /\ row.Azim < 160
       \/ 210 < row.Azim /\ row.Azim < 310

\* df_rh without its excluded rows
WithoutExcluded == SelectSeq(df_rh, NotExcluded)

\* the call has ended
GnssirEnded == pc \in {"raised", "accumulated"}

\* C21: the result of filter_gnssir does not depend on excluded
\* observations: the call ends as the call without them ends, with the
\* same jump value, the same cleaned series and the same returned series.
C21_ExcludedDoNotMatter ==
    (GnssirEnded /\ freq.kind # "list") =>
        LET twin == filter_gnssir_result(WithoutExcluded, freq, threshold)
        IN  /\ pc = twin.end
            /\ pc = "accumulated" =>
                   /\ jump_val = twin.jump_val
                   /\ u_clean = twin.u_clean
                   /\ gnssir_rh_clean = twin.gnssir_rh_clean
                   /\ gnssir_acc = twin.gnssir_acc

\* C21 witness: a call given a row of the selected frequency that its
\* azimuth excludes returns a series with a value.
C21_Witness ==
    /\ pc = "accumulated"
    /\ freq.kind = "single"
    /\ \E i \in 1..Len(df_rh) :
           df_rh[i].freq = freq.code /\ df_rh[i].Azim = 180
    /\ gnssir_acc # <<>>

---------------------------------------------------------------------------
(* Properties of filter_rtklib_solutions as a whole *)

\* C22: jump correction is applied to the smoothed series, after outlier
\* rejection and smoothing, never to the raw admitted series.
C22_JumpCorrectionAfterSmoothing ==
    (fn = "filter_rtklib_solutions" /\ pc = "loop" /\ jump # <<>>)
        => {"outlier rejection", "smoothing"} \subseteq executed

\* C23: the SWE series swe_gnss returned by filter_rtklib_solutions starts
\* at 0.
C23_StartsAtZero ==
    (pc = "returned" /\ swe_gnss # <<>>) => swe_gnss[1].v = Num(0)

\* C25: a call leaves its input frames and series as they were and
\* performs no I/O.
C25_Pure ==
    [][/\ df_enu' = df_enu
       /\ df_rh' = df_rh
       /\ swe' = swe
       /\ sh' = sh
       /\ written' = written]_vars

---------------------------------------------------------------------------
(* Properties of the unit conversion *)

\* two extended rationals are the same number (or both NaN)
SameValue(a, b) ==
    IF a.k = "num" /\ b.k = "num" THEN a.n * b.d = b.n * a.d ELSE a.k = b.k

\* the series a and b have the same timestamps and values
SameSeries(a, b) ==
    /\ Len(a) = Len(b)
    /\ \A i \in 1..Len(a) : a[i].t = b[i].t /\ SameValue(a[i].v, b[i].v)

\* every density given is greater than 0
PositiveDensity ==
    \A i \in 1..Len(ipol_density.s) : ipol_density.s[i].v.n > 0

\* the timestamps the density series has a value at
DensityTimes == {ipol_density.s[i].t : i \in 1..Len(ipol_density.s)}

\* sh at the timestamps where it has a value and a density is given
Convertible ==
    SelectSeq(sh, LAMBDA r : r.v.k # "nan" /\ r.t \in DensityTimes)

\* C24 as stated: the round trip returns x, with the same timestamps and
\* values, for every height series x and every density d > 0.
C24_RoundTrip ==
    (/\ pc = "converted"
     /\ PositiveDensity
     /\ ipol_density.given => ipol_density.s # <<>>)
        => SameSeries(sh_back, sh)

\* C24: with the constant density the round trip returns x; with a
\* density series d > 0 it returns x at the timestamps where x has a value
\* and d has a value, and no other timestamp.
C24_RoundTripWhereDensity ==
    (pc = "converted" /\ PositiveDensity) =>
        IF ipol_density.given THEN SameSeries(sh_back, Convertible)
        ELSE SameSeries(sh_back, sh)

\* C24 witness: a round trip through a density series that lacks a
\* timestamp of x returns the other values of x.
C24_Witness ==
    /\ pc = "converted"
    /\ ipol_density.given
    /\ PositiveDensity
    /\ \E i \in 1..Len(sh) : sh[i].t \notin DensityTimes
    /\ \E i \in 1..Len(sh_back) : sh_back[i].v.n # 0


---------------------------------------------------------------------------
(* Properties of preprocess.py *)

\* the timestamps of a series
Timestamps(s) == {s[i].t : i \in 1..Len(s)}

\* the position in m of the first break
BreakAt == CHOOSE i \in 1..Len(m_smooth) : m_smooth[i].t = jump[1].t

\* the value the call returned for the sample of m at position i
Returned(i) ==
    swe_gnss[CHOOSE k \in 1..Len(swe_gnss) :
                 swe_gnss[k].t = m_smooth[i].t + IndexShift].v

\* C26: when preprocess.filter_rtklib_solutions detects a jump in m, the
\* corrected series keeps every timestamp of m, the samples at and after the
\* break are lowered, relative to those before it, by the value just after
\* the break minus the value just before it, and no break beyond 1000 mm
\* is left in the corrected series.
C26_JumpCorrected ==
    (pc = "pre_returned" /\ jump # <<>>) =>
        /\ Timestamps(swe_gnss) = {t + IndexShift : t \in Timestamps(m_smooth)}
        /\ \A i \in BreakAt..Len(m_smooth) :
               Returned(i) =
                   Sub(Sub(m_smooth[i].v,
                           Sub(m_smooth[BreakAt].v, m_smooth[BreakAt - 1].v)),
                       m_smooth[1].v)
        /\ smoothed_jump(swe_gnss) = <<>>

\* C27: in preprocess.py the decision taken for a sample does not change
\* when a sample far after it (a week or more) joins the series.
C27_OwnTrailingWindow ==
    [][(/\ pc = "pre_outlier"
        /\ pc' = "pre_cleaned"
        /\ Len(u) >= 2
        /\ u[Len(u)].t - u[Len(u) - 1].t >= SevenDays) =>
           \A i \in 1..(Len(u) - 1) :
               Retained(u_clean, u[i].t) <=> Retained(u_clean', u[i].t)]_vars


---------------------------------------------------------------------------
(* Properties of the renaming *)

\* the files of the directory that were given as input files
InputFiles == {f \in tree : f.content # Older}

\* the files of a day of year, input files and files already there
OnDoy(d) ==
    {f \in tree : \/ f.content # Older /\ doy_of(f.content) = d
                  \/ f.content = Older /\ f.name.key = d}

\* every input file carries the name of its day of year with a letter
AllRenamed ==
    \A f \in InputFiles :
        /\ f.name.kind = "doy"
        /\ f.name.key = doy_of(f.content)
        /\ \E i \in 1..Len(Letters) : f.name.letter = Letters[i]

\* C28: when no more than four input files fall on a day of year (and no
\* renamed file of an earlier call is in the directory), after the call
\* every input file carries the name of its day with one of the letters
\* a..d (the names of a directory are distinct, so no two files share one),
\* none keeps its original name, and no file already there is replaced.
C28_AllRenamed ==
    [][/\ (/\ pc' = "renamed"
           /\ InputFiles = tree
           /\ \A d \in 1..MaxDoy : Cardinality(OnDoy(d)) <= Len(Letters))
           => AllRenamed'
       /\ \A f \in tree : f.content = Older => f \in tree']_vars


---------------------------------------------------------------------------
(* Properties of the gradient loop *)

\* the distance between two values
Distance(a, b) == IF a.x >= b.x THEN a.x - b.x ELSE b.x - a.x

\* no two consecutive samples of s differ by more than 500 mm
NoSteepStep(s) ==
    \A i \in 1..(Len(s) - 1) : Distance(s[i + 1].v, s[i].v) <= GradientLimit

\* C29: the gradient loop ends on every series; when it has ended no two
\* consecutive retained samples differ by more than 500 mm, and the first
\* sample of the series that entered the loop is still the first one.
C29_GradientLoopEnds ==
    /\ (pc = "gradient") ~> (pc = "gradient_done")
    /\ [](pc = "gradient_done" =>
              /\ NoSteepStep(u_clean)
              /\ u # <<>> => (u_clean # <<>> /\ u_clean[1] = u[1]))

\* C29 witness: the loop has ended after removing a rising and a falling
\* step and has kept more than the first sample
C29_Witness ==
    /\ pc = "gradient_done"
    /\ Len(u_clean) >= 2
    /\ \E i \in 2..Len(u) : u[i].v.x - u[i - 1].v.x > GradientLimit
    /\ \E i \in 2..Len(u) : u[i - 1].v.x - u[i].v.x > GradientLimit


---------------------------------------------------------------------------
(* Properties of the outlier step on windows without spread *)

\* the valid values of the trailing window of sample i are all the same
NoSpread(s, i, w) ==
    \A j, k \in TrailingWindow(s, i, w) : s[j].v.x = s[k].v.x

\* C30: in filter_rtklib_solutions and filter_gnssir a sample whose
\* trailing 3-day window holds only that sample, or only equal values, is
\* dropped: the first observation is never in the cleaned series, and a
\* constant series is cleaned to the empty series.
C30_NoSpreadDropped ==
    (pc = "cleaned" /\ fn \in {"filter_rtklib_solutions", "filter_gnssir"}) =>
        /\ \A i \in 1..Len(u) :
               NoSpread(u, i, ThreeDays) => ~Retained(u_clean, u[i].t)
        /\ u # <<>> => ~Retained(u_clean, u[1].t)
        /\ (\A i, j \in 1..Len(u) : u[i].v = u[j].v) => u_clean = <<>>

\* C30 witness: a later sample is dropped because its window of two or
\* more samples holds equal values only, while a sample with spread in
\* its window is kept
C30_Witness ==
    /\ pc = "cleaned"
    /\ fn \in {"filter_rtklib_solutions", "filter_gnssir"}
    /\ u_clean # <<>>
    /\ \E i \in 2..Len(u) :
           /\ Cardinality(TrailingWindow(u, i, ThreeDays)) >= 2
           /\ NoSpread(u, i, ThreeDays)
           /\ ~u[i].v.nan
           /\ ~Retained(u_clean, u[i].t)

=============================================================================
